---------------------------- MODULE Spec2Model ----------------------------
(***************************************************************************)
(* A model of the two-party SPDZ2k preprocessing of multipars: the MAC     *)
(* check opener, the truncer, the LowGear dealer, the ZKPoPK and the       *)
(* LowGear triple generator.  Every subsystem has its own specification    *)
(* over the shared variables; a subsystem that a specification does not    *)
(* exercise stays in its idle state.                                       *)
(*                                                                         *)
(* Residues of Z/2^w are kept in retrieved (canonical) form 0..2^w-1: the  *)
(* code stores unreduced limbs, wraps at the limb width and masks with     *)
(* retrieve() whenever a value is compared, converted or serialised, and   *)
(* reduction mod 2^w commutes with the wrapping ring operations.           *)
(***************************************************************************)
EXTENDS Integers, Sequences, FiniteSets, TLC

(***************************************************************************)
(* Bounds.  The rings are scaled down: K = Z/2^KBits, S = Z/2^SBits,       *)
(* KS = Z/2^(KBits+SBits), KSS = Z/2^(KBits+2*SBits).                      *)
(***************************************************************************)
KBits == 2

SBits == 2

SeedBits == 2

MaxShares == 2

KSBits == KBits + SBits

KSSBits == KBits + 2 * SBits

PID == {0, 1}

Other(p) == 1 - p

RECURSIVE Pow2(_)
Pow2(n) == IF n <= 0 THEN 1 ELSE 2 * Pow2(n - 1)

\* retrieve(): the value of a residue of width w, masked to w bits
Retrieve(x, w) == x % Pow2(w)

\* from_unsigned: retrieve the source (width from), then copy limbs into the
\* target (width to): zero-extension when to > from, truncation otherwise
FromUnsigned(x, from, to) == Retrieve(Retrieve(x, from), to)

AddW(x, y, w) == Retrieve(x + y, w)

SubW(x, y, w) == Retrieve(x - y, w)

MulW(x, y, w) == Retrieve(x * y, w)

\* The values a sampled residue of width w takes in the model
SampleVals(w) == {0, 1, Pow2(w - 1), Pow2(w) - 1}

RECURSIVE Xor(_, _, _)
Xor(a, b, n) ==
    IF n = 0 THEN 0
    ELSE ((a + b) % 2) + 2 * Xor(a \div 2, b \div 2, n - 1)

RECURSIVE SumSeq(_, _)
SumSeq(f, n) == IF n = 0 THEN 0 ELSE f[n] + SumSeq(f, n - 1)

(***************************************************************************)
(* Authenticated shares (interface.rs): a pair (val, tag) in KS.           *)
(***************************************************************************)
Share(v, t) == [val |-> v, tag |-> t]

ShareAdd(a, b) ==
    Share(AddW(a.val, b.val, KSBits), AddW(a.tag, b.tag, KSBits))

\* share * K: the scalar is zero-extended to KS and multiplies val and tag
ShareMulK(a, r) ==
    LET rhs == FromUnsigned(r, KBits, KSBits)
    IN  Share(MulW(a.val, rhs, KSBits), MulW(a.tag, rhs, KSBits))

VARIABLES
    mac_key,      \* MacCheckOpener.mac_key of each party (in S)
    mcOp,         \* the opener call in progress: "none", "single", "batch"
    mcShares,     \* per party: the shares handed to batch_check
    mcArg,        \* per party: the share argument of the call (share or mask)
    mcMask,       \* per party: the share being checked (single_check's share)
    mcSeed,       \* per party: local_seed
    mcPc,         \* per party: "idle", "seed", "val", "z", "done"
    mcSent,       \* per party: the send branch of the current join! has run
    mcRcvd,       \* per party: the receive branch of the current join! has run
    mcVal,        \* per party: val of single_check
    mcZ,          \* per party: z of single_check
    mcResult,     \* per party: "none", "Ok", "MacCheckFailed"
    mcOut,        \* per party: the value inside Ok
    ch_values,    \* per party: its inbox of ch_values
    ch_seed       \* per party: its inbox of ch_seed

VARIABLES
    trIn,         \* per party: the arguments of truncate, one record per index
    trPc,         \* per party: "idle", "recv_a", "recv_com", "checked", "done", "panicked"
    trSentA,      \* per party: a_mod2s has been sent
    trSentCom,    \* per party: com_msg has been sent
    trHat,        \* per party: hat_a_tags, hat_c, hat_c_tags, one record per index
    trCom,        \* per party: com_msg
    trOut,        \* per party: the returned (a, a_tags, c, c_tags), one record per index
    ch_a,         \* per party: its inbox of ch_a
    ch_com        \* per party: its inbox of ch_com

VARIABLES
    remote_mac_key, \* per party: LowGearDealer.remote_mac_key, the peer's encrypted key
    dlValues,     \* per party: the values handed to authenticate
    dlPc,         \* per party: "idle", "join", "done", "panicked"
    dlSent,       \* per party: send_mac_tags has run
    dlRcvd,       \* per party: recv_mac_tags has run
    dlE,          \* per party: the drowning mask plain_e drawn by send_mac_tags
    dlTags,       \* per party: the tags returned by send_mac_tags
    dlTags2,      \* per party: the tags returned by recv_mac_tags
    dlOut,        \* per party: the tags returned by authenticate
    ch_dealer     \* per party: its inbox of the dealer stream

VARIABLES
    zkPk,         \* the prover's public key [a, b], known to both sides
    zkInputs,     \* prover: inputs, the PreparedPlaintexts of the ciphertexts
    zkPseudo,     \* prover: Prover.pseudo_inputs of the current attempt
    pvPc,         \* prover: "encrypt", "commit", "challenge", "done", "panicked"
    pvRep,        \* prover: rep of its attempt loop
    pvDrawn,      \* prover: the pseudo-inputs its latest Prover::new sampled
    pvCommits,    \* prover: number of commitments sent so far
    pvAborts,     \* prover: number of ResponseAborted responses sent
    pre_cipher_a_vec, \* verifier: the ciphertexts received
    vfCommitment, \* verifier: the commitment of the current attempt
    vfChallenge,  \* verifier: the challenge of the current attempt
    vfPc,         \* verifier: "ciphertexts", "commitment", "response", "done",
                  \* "panicked_verify", "panicked_reps"
    vfRep,        \* verifier: rep of its attempt loop
    vfChallenges, \* verifier: number of challenges sent so far
    vfVerdict,    \* verifier: "none", or "true"/"false" as the verify it ran returned
    zkTampered,   \* 0, or the index of the ciphertext changed in transit
    ch_ciphertext, \* verifier's inbox of ch_ciphertext_there
    ch_commitment, \* verifier's inbox of ch_commitment
    ch_challenge, \* prover's inbox of ch_challenge
    ch_response   \* verifier's inbox of ch_response

VARIABLES
    ppSet,        \* the PreprocessorParameters both parties were built with
    a_stack,      \* per party: LowGearPreprocessor.a_stack
    ppPc,         \* per party: "idle", "start", "authenticate", "vole", "truncate",
                  \* "batch_check", "returned", "panicked"
    ppIter,       \* per party: iteration_num of get_beaver_triples
    ppLoc,        \* per party: the locals of the current iteration
    ppTriples,    \* per party: triples
    ppTampered,   \* 0, or 1 + the index i of the cipher_d changed in transit, or 4
                  \* when a ciphertext of tags was changed
    ppZk,         \* per party: "none", or what verify said of the peer's ZKPoPK:
                  \* "verified", "failed"
    ch_ciphertext_back \* per party: its inbox of ch_ciphertext_back

VARIABLES
    shX,          \* per party: the share X
    shY,          \* per party: the share Y
    shx,          \* the value X stands for: x, then what the operation makes of it
    shy,          \* the value Y stands for
    shOp,         \* the last operation applied: "none", "add", "sub", "neg", "mul",
                  \* "add_const", "sub_const"
    shPre,        \* X and Y satisfied the sum equations before the last operation
    shOps         \* number of operations applied

VARIABLES
    cnHandles,    \* per peer: the Connection handles, root first, in creation order
    cnMap,        \* per peer: recv_mapper, the entries of the OneshotMap
    cnNet,        \* per peer: the uni streams on their way to its handle_incoming
    cnOpened,     \* per peer: the open_bi calls that returned Ok
    cnSent,       \* per peer: the recv_mapper.send calls of handle_incoming
    cnDups,       \* number of streams with a repeated ID put on the network
    cnCancels     \* number of open_bi calls dropped while they waited

VARIABLES
    bfBudget,     \* budget of BufferedPreprocessor::new
    bfBatch,      \* Preproc::BATCH_SIZE of the inner preprocessor
    bfQueue,      \* queue: the triples, each the number of its production
    bfProducerSem, \* permits of producer_sem
    bfClosed,     \* producer_sem is closed
    bfConsumerSem, \* permits of consumer_sem
    bfPc,         \* produce: "acquire", "batch", "extended", "finish", "terminated"
    bfProduced,   \* number of triples the inner preprocessor has returned
    bfLate,       \* number of batches started after producer_sem was closed
    bfInnerFinish, \* number of calls of inner.finish()
    bfSignal,     \* terminated_tx: "none", "sent", "lost" (the receiver was dropped)
    bfCaller,     \* the owner: "idle", "get", "drain", "permits", "finish", "finished", "dropped", "panicked"
    bfN,          \* n of the get_beaver_triples call in progress or last returned
    bfOut,        \* the vector the last get_beaver_triples returned
    bfGets,       \* number of get_beaver_triples calls made
    bfWarned      \* the warning of Drop was logged

VARIABLES
    bgSk,         \* the coefficients SecretKey::gen drew
    bgPk,         \* the public key
    bgM,          \* the plaintext last encrypted
    bgCt,         \* the ciphertext at hand
    bgOp,         \* the last operation: "none", "encrypt", "decrypt", "add", "sub_plain", "mul_plain"
    bgDepth,      \* number of homomorphic operations bgCt went through
    bgPrev,       \* what the operand ciphertext decrypted to before the operation
    bgArg,        \* the plaintext operand, or what the second ciphertext decrypts to
    bgOut         \* what decrypt returned for bgCt

VARIABLES
    tpSet,        \* the TIP parameter set
    tpV,          \* the unpacked vector v
    tpW,          \* the unpacked vector w
    tpPc,         \* "start", "packed", "multiplied", "unpacked"
    tpPacked,     \* pack(v) and pack(w)
    tpProd,       \* the product of the two packings
    tpOut         \* what unpack returned

VARIABLES
    fnOp,         \* the function that is applied
    fnIn,         \* its arguments
    fnOut,        \* what it returned
    fnDone        \* whether it has been applied

macVars == <<mac_key, mcOp, mcShares, mcArg, mcMask, mcSeed, mcPc, mcSent, mcRcvd,
             mcVal, mcZ, mcResult, mcOut, ch_values, ch_seed>>

truncVars == <<trIn, trPc, trSentA, trSentCom, trHat, trCom, trOut, ch_a, ch_com>>

dealerVars == <<remote_mac_key, dlValues, dlPc, dlSent, dlRcvd, dlE, dlTags, dlTags2,
                dlOut, ch_dealer>>

zkVars == <<zkPk, zkInputs, zkPseudo, pvPc, pvRep, pvDrawn, pvCommits, pvAborts, pre_cipher_a_vec,
            vfCommitment, vfChallenge, vfPc, vfRep, vfChallenges, vfVerdict, zkTampered,
            ch_ciphertext, ch_commitment, ch_challenge, ch_response>>

ppVars == <<ppSet, a_stack, ppPc, ppIter, ppLoc, ppTriples, ppTampered, ppZk,
           ch_ciphertext_back>>

shareVars == <<shX, shY, shx, shy, shOp, shPre, shOps>>

connVars == <<cnHandles, cnMap, cnNet, cnOpened, cnSent, cnDups, cnCancels>>

bufVars == <<bfBudget, bfBatch, bfQueue, bfProducerSem, bfClosed, bfConsumerSem, bfPc,
             bfProduced, bfLate, bfInnerFinish, bfSignal, bfCaller, bfN, bfOut, bfGets,
             bfWarned>>

bgvVars == <<bgSk, bgPk, bgM, bgCt, bgOp, bgDepth, bgPrev, bgArg, bgOut>>

tipVars == <<tpSet, tpV, tpW, tpPc, tpPacked, tpProd, tpOut>>

fnVars == <<fnOp, fnIn, fnOut, fnDone>>

laterVars == <<shareVars, connVars, bufVars, bgvVars, tipVars, fnVars>>

earlyVars == <<macVars, truncVars, dealerVars, zkVars, ppVars>>

nonShareVars == <<earlyVars, connVars, bufVars, bgvVars, tipVars, fnVars>>

nonConnVars == <<earlyVars, shareVars, bufVars, bgvVars, tipVars, fnVars>>

nonBufVars == <<earlyVars, shareVars, connVars, bgvVars, tipVars, fnVars>>

nonBgvVars == <<earlyVars, shareVars, connVars, bufVars, tipVars, fnVars>>

nonTipVars == <<earlyVars, shareVars, connVars, bufVars, bgvVars, fnVars>>

nonFnVars == <<earlyVars, shareVars, connVars, bufVars, bgvVars, tipVars>>

vars == <<macVars, truncVars, dealerVars, zkVars, ppVars, laterVars>>

macState == <<mcOp, mcShares, mcArg, mcMask, mcSeed, mcPc, mcSent, mcRcvd,
              mcVal, mcZ, mcResult, mcOut, ch_values, ch_seed>>

nonMacVars == <<truncVars, dealerVars, zkVars, ppVars, laterVars>>

nonTruncVars == <<macState, dealerVars, zkVars, ppVars, laterVars>>

nonDealerVars == <<macState, truncVars, zkVars, ppVars, laterVars>>

nonZkVars == <<mac_key, macState, truncVars, dealerVars, ppVars, laterVars>>

(***************************************************************************)
(* The state of each component before any of its operations is called.    *)
(***************************************************************************)
NoShare == Share(0, 0)

MacIdle ==
    /\ mcOp = "none"
    /\ mcShares = [p \in PID |-> <<>>]
    /\ mcArg = [p \in PID |-> NoShare]
    /\ mcMask = [p \in PID |-> NoShare]
    /\ mcSeed = [p \in PID |-> 0]
    /\ mcPc = [p \in PID |-> "idle"]
    /\ mcSent = [p \in PID |-> FALSE]
    /\ mcRcvd = [p \in PID |-> FALSE]
    /\ mcVal = [p \in PID |-> 0]
    /\ mcZ = [p \in PID |-> 0]
    /\ mcResult = [p \in PID |-> "none"]
    /\ mcOut = [p \in PID |-> 0]
    /\ ch_values = [p \in PID |-> <<>>]
    /\ ch_seed = [p \in PID |-> <<>>]

TruncIdle ==
    /\ trIn = [p \in PID |-> <<>>]
    /\ trPc = [p \in PID |-> "idle"]
    /\ trSentA = [p \in PID |-> FALSE]
    /\ trSentCom = [p \in PID |-> FALSE]
    /\ trHat = [p \in PID |-> <<>>]
    /\ trCom = [p \in PID |-> <<>>]
    /\ trOut = [p \in PID |-> <<>>]
    /\ ch_a = [p \in PID |-> <<>>]
    /\ ch_com = [p \in PID |-> <<>>]

DealerCallIdle ==
    /\ dlValues = [p \in PID |-> <<>>]
    /\ dlPc = [p \in PID |-> "idle"]
    /\ dlSent = [p \in PID |-> FALSE]
    /\ dlRcvd = [p \in PID |-> FALSE]
    /\ dlE = [p \in PID |-> <<>>]
    /\ dlTags = [p \in PID |-> <<>>]
    /\ dlTags2 = [p \in PID |-> <<>>]
    /\ dlOut = [p \in PID |-> <<>>]
    /\ ch_dealer = [p \in PID |-> <<>>]

DealerIdle ==
    /\ remote_mac_key = [p \in PID |-> <<>>]
    /\ DealerCallIdle

ZkIdle ==
    /\ zkPk = <<>>
    /\ zkInputs = <<>>
    /\ zkPseudo = <<>>
    /\ pvPc = "idle"
    /\ pvRep = 0
    /\ pvDrawn = <<>>
    /\ pvCommits = 0
    /\ pvAborts = 0
    /\ pre_cipher_a_vec = <<>>
    /\ vfCommitment = <<>>
    /\ vfChallenge = 0
    /\ vfPc = "idle"
    /\ vfRep = 0
    /\ vfChallenges = 0
    /\ vfVerdict = "none"
    /\ zkTampered = 0
    /\ ch_ciphertext = <<>>
    /\ ch_commitment = <<>>
    /\ ch_challenge = <<>>
    /\ ch_response = <<>>

PpIdle ==
    /\ ppSet = "none"
    /\ a_stack = [p \in PID |-> <<>>]
    /\ ppPc = [p \in PID |-> "idle"]
    /\ ppIter = [p \in PID |-> 0]
    /\ ppLoc = [p \in PID |-> <<>>]
    /\ ppTriples = [p \in PID |-> <<>>]
    /\ ppTampered = 0
    /\ ppZk = [p \in PID |-> "none"]
    /\ ch_ciphertext_back = [p \in PID |-> <<>>]

ShareIdle ==
    /\ shX = [p \in PID |-> NoShare]
    /\ shY = [p \in PID |-> NoShare]
    /\ shx = 0
    /\ shy = 0
    /\ shOp = "none"
    /\ shPre = FALSE
    /\ shOps = 0

ConnIdle ==
    /\ cnHandles = [p \in PID |-> <<>>]
    /\ cnMap = [p \in PID |-> {}]
    /\ cnNet = [p \in PID |-> {}]
    /\ cnOpened = [p \in PID |-> {}]
    /\ cnSent = [p \in PID |-> {}]
    /\ cnDups = 0
    /\ cnCancels = 0

BufIdle ==
    /\ bfBudget = 0
    /\ bfBatch = 0
    /\ bfQueue = <<>>
    /\ bfProducerSem = 0
    /\ bfClosed = FALSE
    /\ bfConsumerSem = 0
    /\ bfPc = "idle"
    /\ bfProduced = 0
    /\ bfLate = 0
    /\ bfInnerFinish = 0
    /\ bfSignal = "none"
    /\ bfCaller = "none"
    /\ bfN = 0
    /\ bfOut = <<>>
    /\ bfGets = 0
    /\ bfWarned = FALSE

BgvIdle ==
    /\ bgSk = <<>>
    /\ bgPk = <<>>
    /\ bgM = <<>>
    /\ bgCt = <<>>
    /\ bgOp = "none"
    /\ bgDepth = 0
    /\ bgPrev = <<>>
    /\ bgArg = <<>>
    /\ bgOut = <<>>

TipIdle ==
    /\ tpSet = <<>>
    /\ tpV = <<>>
    /\ tpW = <<>>
    /\ tpPc = "idle"
    /\ tpPacked = <<>>
    /\ tpProd = <<>>
    /\ tpOut = <<>>

FnIdle ==
    /\ fnOp = "none"
    /\ fnIn = <<>>
    /\ fnOut = <<>>
    /\ fnDone = FALSE

LaterIdle ==
    /\ ShareIdle
    /\ ConnIdle
    /\ BufIdle
    /\ BgvIdle
    /\ TipIdle
    /\ FnIdle

(***************************************************************************)
(* MacCheckOpener (mac_check_opener/mod.rs)                                *)
(***************************************************************************)
\* The i-th K::random draw of ChaCha20Rng::from_seed(seed): a fixed function
\* of the seed and the draw index whose values range over K
PrngK(seed, i) == Retrieve(seed * i + (i - 1), KBits)

\* the MAC defect of a pair of shares under the keys: zero iff the MAC holds
MacDefect(sh0, sh1, key) ==
    SubW(sh0.tag + sh1.tag,
         (FromUnsigned(key[0], SBits, KSBits) + FromUnsigned(key[1], SBits, KSBits))
           * (sh0.val + sh1.val), KSBits)

\* A pair of additive shares with MAC defect d under the keys `key`
SharePair(v0, v1, t0, d, key) ==
    LET alpha == key[0] + key[1]
        t1 == SubW(alpha * (v0 + v1) + d, t0, KSBits)
    IN  [p \in PID |-> IF p = 0 THEN Share(v0, t0) ELSE Share(v1, t1)]

Defects == {0, 1, Pow2(KSBits - 1)}

SinglePairs(key) ==
    { SharePair(v0, v1, t0, d, key) :
        v0 \in SampleVals(KSBits), v1 \in SampleVals(KSBits),
        t0 \in {0, Pow2(KSBits) - 1}, d \in Defects }

BatchPairs(key) ==
    { SharePair(2, Pow2(KSBits) - 3, 1, d, key) : d \in Defects }

MaskPairs(key) ==
    { SharePair(1, 0, 1, d, key) : d \in {0, 1} }

RECURSIVE SeqsUpTo(_, _)
SeqsUpTo(S, n) ==
    IF n = 0 THEN {<<>>}
    ELSE LET shorter == SeqsUpTo(S, n - 1)
         IN  shorter \cup { Append(q, x) : q \in { r \in shorter : Len(r) = n - 1 }, x \in S }

\* val = share.val + received[0]
single_check_val(share, received) == AddW(share.val, received, KSBits)

z_without_remote_val(share, val, key) ==
    SubW(share.tag, MulW(share.val, FromUnsigned(key, SBits, KSBits), KSBits), KSBits)

\* z = share.tag - val * KS::from_unsigned(self.mac_key)
single_check_z(share, val, key) ==
    SubW(share.tag, MulW(val, FromUnsigned(key, SBits, KSBits), KSBits), KSBits)

seed_local_only(local_seed, remote_seed) == local_seed

\* seed = local_seed ^ remote_seed, bytewise
batch_check_seed(local_seed, remote_seed) == Xor(local_seed, remote_seed, SeedBits)

\* for share in shares { mask += share * K::random(&mut prng) }
RECURSIVE batch_check_mask(_, _, _, _)
batch_check_mask(mask, shares, seed, i) ==
    IF i > Len(shares) THEN mask
    ELSE batch_check_mask(ShareAdd(mask, ShareMulK(shares[i], PrngK(seed, i))),
                          shares, seed, i + 1)

\* A caller starts single_check(share) at both parties
SingleCall ==
    /\ mcOp = "none"
    /\ \E pair \in SinglePairs(mac_key) :
        /\ mcArg' = pair
        /\ mcMask' = pair
        /\ mcOp' = "single"
        /\ mcPc' = [p \in PID |-> "val"]
    /\ UNCHANGED <<mac_key, nonMacVars, mcShares, mcSeed, mcSent, mcRcvd, mcVal, mcZ,
                   mcResult, mcOut, ch_values, ch_seed>>

\* A caller starts batch_check(shares, mask) at both parties; each party
\* draws its local_seed
BatchCall ==
    /\ mcOp = "none"
    /\ \E pairs \in SeqsUpTo(BatchPairs(mac_key), MaxShares),
          mask \in MaskPairs(mac_key),
          s0 \in 0 .. Pow2(SeedBits) - 1, s1 \in {0, 1} :
        /\ mcShares' = [p \in PID |-> [i \in 1 .. Len(pairs) |-> pairs[i][p]]]
        /\ mcArg' = mask
        /\ mcMask' = mask
        /\ mcSeed' = [p \in PID |-> IF p = 0 THEN s0 ELSE s1]
        /\ mcOp' = "batch"
        /\ mcPc' = [p \in PID |-> "seed"]
    /\ UNCHANGED <<mac_key, nonMacVars, mcSent, mcRcvd, mcVal, mcZ, mcResult, mcOut,
                   ch_values, ch_seed>>

\* join! bookkeeping: the phase ends when both branches have run
JoinStep(p, sends, next) ==
    LET sentNow == mcSent[p] \/ sends
        rcvdNow == mcRcvd[p] \/ ~sends
    IN  IF sentNow /\ rcvdNow
        THEN /\ mcPc' = [mcPc EXCEPT ![p] = next]
             /\ mcSent' = [mcSent EXCEPT ![p] = FALSE]
             /\ mcRcvd' = [mcRcvd EXCEPT ![p] = FALSE]
        ELSE /\ mcPc' = mcPc
             /\ mcSent' = [mcSent EXCEPT ![p] = sentNow]
             /\ mcRcvd' = [mcRcvd EXCEPT ![p] = rcvdNow]

\* batch_check: tx.send(local_seed)
BatchSendSeed(p) ==
    /\ mcPc[p] = "seed" /\ ~mcSent[p]
    /\ ch_seed' = [ch_seed EXCEPT ![Other(p)] = Append(@, mcSeed[p])]
    /\ JoinStep(p, TRUE, "val")
    /\ UNCHANGED <<mac_key, nonMacVars, mcOp, mcShares, mcArg, mcMask, mcSeed, mcVal, mcZ,
                   mcResult, mcOut, ch_values>>

\* batch_check: receive remote_seed, xor, fold the shares into the mask
BatchRecvSeed(p) ==
    /\ mcPc[p] = "seed" /\ ~mcRcvd[p]
    /\ ch_seed[p] # <<>>
    /\ LET remote_seed == Head(ch_seed[p])
           seed == batch_check_seed(mcSeed[p], remote_seed)
       IN  mcMask' = [mcMask EXCEPT ![p] = batch_check_mask(@, mcShares[p], seed, 1)]
    /\ ch_seed' = [ch_seed EXCEPT ![p] = Tail(@)]
    /\ JoinStep(p, FALSE, "val")
    /\ UNCHANGED <<mac_key, nonMacVars, mcOp, mcShares, mcArg, mcSeed, mcVal, mcZ, mcResult,
                   mcOut, ch_values>>

\* single_check: tx.send([share.val])
SingleSendVal(p) ==
    /\ mcPc[p] = "val" /\ ~mcSent[p]
    /\ ch_values' = [ch_values EXCEPT ![Other(p)] = Append(@, mcMask[p].val)]
    /\ JoinStep(p, TRUE, "z")
    /\ UNCHANGED <<mac_key, nonMacVars, mcOp, mcShares, mcArg, mcMask, mcSeed, mcVal, mcZ,
                   mcResult, mcOut, ch_seed>>

\* single_check: receive the remote val; val and z follow
SingleRecvVal(p) ==
    /\ mcPc[p] = "val" /\ ~mcRcvd[p]
    /\ ch_values[p] # <<>>
    /\ LET val == single_check_val(mcMask[p], Head(ch_values[p]))
       IN  /\ mcVal' = [mcVal EXCEPT ![p] = val]
           /\ mcZ' = [mcZ EXCEPT ![p] = single_check_z(mcMask[p], val, mac_key[p])]
    /\ ch_values' = [ch_values EXCEPT ![p] = Tail(@)]
    /\ JoinStep(p, FALSE, "z")
    /\ UNCHANGED <<mac_key, nonMacVars, mcOp, mcShares, mcArg, mcMask, mcSeed, mcResult, mcOut,
                   ch_seed>>

\* single_check: tx.send([z])
SingleSendZ(p) ==
    /\ mcPc[p] = "z" /\ ~mcSent[p]
    /\ ch_values' = [ch_values EXCEPT ![Other(p)] = Append(@, mcZ[p])]
    /\ LET done == mcRcvd[p]
       IN  /\ mcPc' = [mcPc EXCEPT ![p] = IF done THEN "done" ELSE @]
           /\ mcSent' = [mcSent EXCEPT ![p] = ~done]
           /\ mcRcvd' = [mcRcvd EXCEPT ![p] = FALSE]
    /\ UNCHANGED <<mac_key, nonMacVars, mcOp, mcShares, mcArg, mcMask, mcSeed, mcVal, mcZ,
                   mcResult, mcOut, ch_seed>>

\* single_check: receive the remote z, sum, compare with zero, return
SingleRecvZ(p) ==
    /\ mcPc[p] = "z" /\ ~mcRcvd[p]
    /\ ch_values[p] # <<>>
    /\ LET sum == AddW(mcZ[p], Head(ch_values[p]), KSBits)
       IN  IF sum # 0
           THEN /\ mcResult' = [mcResult EXCEPT ![p] = "MacCheckFailed"]
                /\ mcOut' = mcOut
           ELSE /\ mcResult' = [mcResult EXCEPT ![p] = "Ok"]
                /\ mcOut' = [mcOut EXCEPT ![p] = FromUnsigned(mcVal[p], KSBits, KBits)]
    /\ ch_values' = [ch_values EXCEPT ![p] = Tail(@)]
    /\ LET done == mcSent[p]
       IN  /\ mcPc' = [mcPc EXCEPT ![p] = IF done THEN "done" ELSE @]
           /\ mcRcvd' = [mcRcvd EXCEPT ![p] = ~done]
           /\ mcSent' = [mcSent EXCEPT ![p] = FALSE]
    /\ UNCHANGED <<mac_key, nonMacVars, mcOp, mcShares, mcArg, mcMask, mcSeed, mcVal, mcZ, ch_seed>>

\* The MAC key shares the parties were constructed with
MacKeys == [PID -> {0, 1, Pow2(SBits) - 1}]

InitMac ==
    /\ mac_key \in MacKeys
    /\ MacIdle
    /\ TruncIdle
    /\ DealerIdle
    /\ ZkIdle
    /\ PpIdle
    /\ LaterIdle

NextMac ==
    \/ SingleCall
    \/ BatchCall
    \/ \E p \in PID : BatchSendSeed(p)
    \/ \E p \in PID : BatchRecvSeed(p)
    \/ \E p \in PID : SingleSendVal(p)
    \/ \E p \in PID : SingleRecvVal(p)
    \/ \E p \in PID : SingleSendZ(p)
    \/ \E p \in PID : SingleRecvZ(p)

SpecMac == InitMac /\ [][NextMac]_vars

\* C3: single_check(share) returns Ok(x mod 2^k) with x = val_0 + val_1, the
\* same x at both parties, exactly when tag_0 + tag_1 = (alpha_0 + alpha_1) * x
\* in Z/2^(k+s); otherwise it returns MacCheckFailed at both parties.
C3_SingleCheck ==
    \A p \in PID :
        (mcOp = "single" /\ mcPc[p] = "done") =>
            LET x == AddW(mcArg[0].val, mcArg[1].val, KSBits)
            IN  IF MacDefect(mcArg[0], mcArg[1], mac_key) = 0
                THEN mcResult[p] = "Ok" /\ mcOut[p] = x % Pow2(KBits)
                ELSE mcResult[p] = "MacCheckFailed"

C3_Witness ==
    /\ mcOp = "single"
    /\ \A p \in PID : mcPc[p] = "done" /\ mcResult[p] = "Ok" /\ mcOut[p] # 0
    /\ mcArg[0].val + mcArg[1].val >= Pow2(KBits)

\* The random coefficients of a batch_check run and the weighted defect sum
BatchSeed == Xor(mcSeed[0], mcSeed[1], SeedBits)

BatchDefects == [i \in 1 .. Len(mcShares[0]) |->
                    MacDefect(mcShares[0][i], mcShares[1][i], mac_key)]

BatchWeighted ==
    Retrieve(MacDefect(mcArg[0], mcArg[1], mac_key)
             + SumSeq([i \in 1 .. Len(mcShares[0]) |->
                         PrngK(BatchSeed, i) * BatchDefects[i]], Len(mcShares[0])),
             KSBits)

\* C4 (as amended): batch_check(shares, mask) returns Ok at both parties
\* exactly when the defect of the mask plus the sum of r_i * defect_i is zero
\* in Z/2^(k+s), r_i the coefficients drawn from the joint seed; in particular
\* it returns Ok whenever the mask and every share satisfy the MAC equation.
C4_BatchCheckWeighted ==
    \A p \in PID :
        (mcOp = "batch" /\ mcPc[p] = "done") =>
            /\ mcResult[p] = (IF BatchWeighted = 0 THEN "Ok" ELSE "MacCheckFailed")
            /\ (MacDefect(mcArg[0], mcArg[1], mac_key) = 0
                  /\ \A i \in 1 .. Len(mcShares[0]) : BatchDefects[i] = 0)
                => mcResult[p] = "Ok"

C4_Witness ==
    /\ mcOp = "batch"
    /\ Len(mcShares[0]) = MaxShares
    /\ \A p \in PID : mcPc[p] = "done" /\ mcResult[p] = "MacCheckFailed"
    /\ MacDefect(mcArg[0], mcArg[1], mac_key) = 0

\* C4 as stated: with a valid mask, Ok iff every share satisfies its MAC
C4_BatchCheckIff ==
    \A p \in PID :
        (mcOp = "batch" /\ mcPc[p] = "done"
           /\ MacDefect(mcArg[0], mcArg[1], mac_key) = 0) =>
            (mcResult[p] = "Ok" <=> \A i \in 1 .. Len(mcShares[0]) : BatchDefects[i] = 0)

(***************************************************************************)
(* Truncer (low_gear_preproc/truncer.rs)                                   *)
(***************************************************************************)
TruncLen == 2

\* let a_mod2s = wide_a.map(S::from_unsigned)
a_mod2s(wide_a) == FromUnsigned(wide_a, KSSBits, SBits)

\* sigma_a = KS::from_unsigned(l) + KS::from_unsigned(r)
sigma_a(l, r) ==
    AddW(FromUnsigned(l, SBits, KSBits), FromUnsigned(r, SBits, KSBits), KSBits)

\* hat_a_tags = wide_a_tags - KSS(sigma_a) * KSS(mac_key)
hat_a_tags(wide_a_tags, sigma, key) ==
    SubW(wide_a_tags,
         MulW(FromUnsigned(sigma, KSBits, KSSBits),
              FromUnsigned(key, SBits, KSSBits), KSSBits), KSSBits)

hat_c_uncorrected(wide_c, sigma, b) == wide_c

\* hat_c = wide_c - KSS(sigma_a) * KSS(b)
hat_c(wide_c, sigma, b) ==
    SubW(wide_c,
         MulW(FromUnsigned(sigma, KSBits, KSSBits),
              FromUnsigned(b, KBits, KSSBits), KSSBits), KSSBits)

\* hat_c_tags = wide_c_tags - KSS(sigma_a) * KSS(b_tags)
hat_c_tags(wide_c_tags, sigma, b_tags) ==
    SubW(wide_c_tags,
         MulW(FromUnsigned(sigma, KSBits, KSSBits),
              FromUnsigned(b_tags, KSBits, KSSBits), KSSBits), KSSBits)

check_never_fails(x, w) == TRUE

\* assert_eq!(S::from_unsigned(x), S::ZERO) for x of width w
check_is_zero_mod2s(x, w) == FromUnsigned(x, w, SBits) = 0

\* KS::from_unsigned(x.shr_vartime(KSS::BITS - KS::BITS))
shift(x) ==
    FromUnsigned(Retrieve(x, KSSBits) \div Pow2(KSSBits - KSBits), KSSBits, KSBits)

\* The arguments of truncate at one index, for the two parties: additive
\* sharings of wide_a, b, alpha*wide_a + dat, wide_a*b + dc and
\* wide_a*(b_tags) + dct
TruncArgs(wa0, wa1, b0, b1, r, dat, dc, dct, key) ==
    LET alpha == key[0] + key[1]
        bt0 == Retrieve(r, KSBits)
        bt1 == SubW(alpha * (b0 + b1), bt0, KSBits)
        A == wa0 + wa1
    IN  [p \in PID |->
          IF p = 0
          THEN [wide_a |-> wa0, wide_a_tags |-> r, b |-> b0, b_tags |-> bt0,
                wide_c |-> r, wide_c_tags |-> r]
          ELSE [wide_a |-> wa1,
                wide_a_tags |-> SubW(alpha * A + dat, r, KSSBits),
                b |-> b1, b_tags |-> bt1,
                wide_c |-> SubW(A * (b0 + b1) + dc, r, KSSBits),
                wide_c_tags |-> SubW(A * (bt0 + bt1) + dct, r, KSSBits)]]

TruncDefects ==
    { <<0, 0, 0>>, <<1, 0, 0>>, <<0, Pow2(SBits) - 1, 0>>, <<0, 0, 1>>,
      <<Pow2(SBits), 0, 0>>, <<0, Pow2(SBits), 0>>, <<0, 0, Pow2(KSSBits - 1)>> }

TruncRich(key) ==
    { TruncArgs(wa0, wa1, bb[1], bb[2], r, d[1], d[2], d[3], key) :
        wa0 \in {1, Pow2(SBits) - 1, Pow2(KSSBits) - 1},
        wa1 \in {0, Pow2(SBits + 1) - 1},
        bb \in {<<1, 0>>, <<Pow2(KBits) - 1, Pow2(KBits) - 1>>},
        r \in {Pow2(KSSBits) - 1},
        d \in TruncDefects }

TruncThin(key) ==
    { TruncArgs(Pow2(SBits) + 1, Pow2(SBits) - 1, 1, 1, 3, d[1], d[2], d[3], key) :
        d \in { <<0, 0, 0>>, <<0, 1, 0>>, <<0, 0, Pow2(SBits)>> } }

\* Vectors of TruncLen indices: the first index ranges over the rich sample
TruncVectors(key) ==
    LET RECURSIVE Build(_)
        Build(n) ==
            IF n = 1 THEN { <<t>> : t \in TruncRich(key) }
            ELSE { Append(q, t) : q \in Build(n - 1), t \in TruncThin(key) }
    IN  Build(TruncLen)

\* Both parties enter truncate with their arguments
TruncCall ==
    /\ \A p \in PID : trPc[p] = "idle"
    /\ \E v \in TruncVectors(mac_key) :
        trIn' = [p \in PID |-> [i \in 1 .. Len(v) |-> v[i][p]]]
    /\ trPc' = [p \in PID |-> "recv_a"]
    /\ UNCHANGED <<mac_key, nonTruncVars, trSentA, trSentCom, trHat, trCom, trOut, ch_a, ch_com>>

\* the function returns when the receive branch and both sends are through
TruncReturns(p, checked, sentA, sentCom) ==
    IF checked /\ sentA /\ sentCom THEN "done"
    ELSE IF checked THEN "checked" ELSE trPc[p]

\* tx_a.send(a_mod2s)
TruncSendA(p) ==
    /\ trPc[p] \in {"recv_a", "recv_com", "checked"} /\ ~trSentA[p]
    /\ ch_a' = [ch_a EXCEPT ![Other(p)] =
                   Append(@, [i \in 1 .. Len(trIn[p]) |-> a_mod2s(trIn[p][i].wide_a)])]
    /\ trSentA' = [trSentA EXCEPT ![p] = TRUE]
    /\ trPc' = [trPc EXCEPT ![p] = TruncReturns(p, trPc[p] = "checked", TRUE, trSentCom[p])]
    /\ UNCHANGED <<mac_key, nonTruncVars, trIn, trSentCom, trHat, trCom, trOut, ch_com>>

\* ComMsg: the three hat vectors modulo 2^s
com_msg(hat) ==
    [i \in 1 .. Len(hat) |->
        [hat_a_tags_mod2s |-> FromUnsigned(hat[i].hat_a_tags, KSSBits, SBits),
         hat_c_mod2s |-> FromUnsigned(hat[i].hat_c, KSSBits, SBits),
         hat_c_tags_mod2s |-> FromUnsigned(hat[i].hat_c_tags, KSSBits, SBits)]]

\* the three hat vectors of a party with arguments x and key, given remote_a_mod2s
hats(x, remote, key) ==
    [i \in 1 .. Len(x) |->
        LET sigma == sigma_a(a_mod2s(x[i].wide_a), remote[i])
        IN  [hat_a_tags |-> hat_a_tags(x[i].wide_a_tags, sigma, key),
             hat_c |-> hat_c(x[i].wide_c, sigma, x[i].b),
             hat_c_tags |-> hat_c_tags(x[i].wide_c_tags, sigma, x[i].b_tags)]]

\* receive remote_a_mod2s; sigma_a and the three hat vectors follow
TruncRecvA(p) ==
    /\ trPc[p] = "recv_a"
    /\ ch_a[p] # <<>>
    /\ LET remote == Head(ch_a[p])
           len == Len(trIn[p])
       IN  IF Len(remote) # len
           THEN /\ trPc' = [trPc EXCEPT ![p] = "panicked"]
                /\ UNCHANGED <<trHat, trCom>>
           ELSE /\ trPc' = [trPc EXCEPT ![p] = "recv_com"]
                /\ trHat' = [trHat EXCEPT ![p] = hats(trIn[p], remote, mac_key[p])]
                /\ trCom' = [trCom EXCEPT ![p] = com_msg(hats(trIn[p], remote, mac_key[p]))]
    /\ ch_a' = [ch_a EXCEPT ![p] = Tail(@)]
    /\ UNCHANGED <<mac_key, nonTruncVars, trIn, trSentA, trSentCom, trOut, ch_com>>

\* tx_com.send(com_msg)
TruncSendCom(p) ==
    /\ trPc[p] \in {"recv_com", "checked"} /\ ~trSentCom[p]
    /\ ch_com' = [ch_com EXCEPT ![Other(p)] = Append(@, trCom[p])]
    /\ trSentCom' = [trSentCom EXCEPT ![p] = TRUE]
    /\ trPc' = [trPc EXCEPT ![p] = TruncReturns(p, trPc[p] = "checked", trSentA[p], TRUE)]
    /\ UNCHANGED <<mac_key, nonTruncVars, trIn, trSentA, trHat, trCom, trOut, ch_a>>

\* party 0: *dst += KSS::from_unsigned(*src)
hat_plus_remote(dst, src) == AddW(dst, FromUnsigned(src, SBits, KSSBits), KSSBits)

\* party 1: KS::from_unsigned(*l) + KS::from_unsigned(*r)
local_plus_remote(l, r) ==
    AddW(FromUnsigned(l, SBits, KSBits), FromUnsigned(r, SBits, KSBits), KSBits)

\* receive remote_com, check the sums modulo 2^s, shift
TruncRecvCom(p) ==
    /\ trPc[p] = "recv_com"
    /\ ch_com[p] # <<>>
    /\ LET remote == Head(ch_com[p])
           len == Len(trIn[p])
           local == trCom[p]
           hat == IF p = 0
                  THEN [i \in 1 .. len |->
                          [hat_a_tags |-> hat_plus_remote(trHat[p][i].hat_a_tags,
                                                          remote[i].hat_a_tags_mod2s),
                           hat_c |-> hat_plus_remote(trHat[p][i].hat_c,
                                                     remote[i].hat_c_mod2s),
                           hat_c_tags |-> hat_plus_remote(trHat[p][i].hat_c_tags,
                                                          remote[i].hat_c_tags_mod2s)]]
                  ELSE trHat[p]
           passed ==
               IF p = 0
               THEN \A i \in 1 .. len :
                      /\ check_is_zero_mod2s(hat[i].hat_a_tags, KSSBits)
                      /\ check_is_zero_mod2s(hat[i].hat_c, KSSBits)
                      /\ check_is_zero_mod2s(hat[i].hat_c_tags, KSSBits)
               ELSE \A i \in 1 .. len :
                      /\ check_is_zero_mod2s(
                           local_plus_remote(local[i].hat_a_tags_mod2s,
                                             remote[i].hat_a_tags_mod2s), KSBits)
                      /\ check_is_zero_mod2s(
                           local_plus_remote(local[i].hat_c_mod2s,
                                             remote[i].hat_c_mod2s), KSBits)
                      /\ check_is_zero_mod2s(
                           local_plus_remote(local[i].hat_c_tags_mod2s,
                                             remote[i].hat_c_tags_mod2s), KSBits)
       IN  IF Len(remote) # len \/ ~passed
           THEN /\ trPc' = [trPc EXCEPT ![p] = "panicked"]
                /\ UNCHANGED <<trHat, trOut>>
           ELSE /\ trPc' = [trPc EXCEPT ![p] =
                              TruncReturns(p, TRUE, trSentA[p], trSentCom[p])]
                /\ trHat' = [trHat EXCEPT ![p] = hat]
                /\ trOut' = [trOut EXCEPT ![p] =
                     [i \in 1 .. len |->
                        [a |-> shift(trIn[p][i].wide_a),
                         a_tags |-> shift(hat[i].hat_a_tags),
                         c |-> shift(hat[i].hat_c),
                         c_tags |-> shift(hat[i].hat_c_tags)]]]
    /\ ch_com' = [ch_com EXCEPT ![p] = Tail(@)]
    /\ UNCHANGED <<mac_key, nonTruncVars, trIn, trSentA, trSentCom, trCom, ch_a>>

\* rx.next().await.unwrap(): the peer panicked before sending what this party
\* waits for, its streams are closed and the unwrap panics
TruncPeerClosed(p) ==
    /\ trPc[Other(p)] = "panicked"
    /\ \/ trPc[p] = "recv_a" /\ ch_a[p] = <<>> /\ ~trSentA[Other(p)]
       \/ trPc[p] = "recv_com" /\ ch_com[p] = <<>> /\ ~trSentCom[Other(p)]
    /\ trPc' = [trPc EXCEPT ![p] = "panicked"]
    /\ UNCHANGED <<mac_key, nonTruncVars, trIn, trSentA, trSentCom, trHat, trCom,
                   trOut, ch_a, ch_com>>

\* a party that can only move by receiving: it has returned or panicked, or
\* it has done its sends and waits on an empty inbox
TruncWaits(p) ==
    \/ trPc[p] \in {"done", "panicked"}
    \/ trSentA[p] /\ trPc[p] = "recv_a" /\ ch_a[p] = <<>>
    \/ trSentA[p] /\ trSentCom[p] /\ trPc[p] = "recv_com" /\ ch_com[p] = <<>>

TruncStep ==
    \/ \E p \in PID : TruncSendA(p)
    \/ \E p \in PID : TruncRecvA(p)
    \/ \E p \in PID : TruncSendCom(p)
    \/ \E p \in PID : TruncRecvCom(p)
    \/ \E p \in PID : TruncPeerClosed(p)

TruncKeys ==
    { <<0, 1>>, <<1, Pow2(SBits) - 1>>, <<Pow2(SBits) - 1, Pow2(SBits) - 1>> }

InitTrunc ==
    /\ \E key \in TruncKeys : mac_key = [p \in PID |-> key[p + 1]]
    /\ MacIdle
    /\ TruncIdle
    /\ DealerIdle
    /\ ZkIdle
    /\ PpIdle
    /\ LaterIdle

NextTrunc ==
    \/ TruncCall
    \/ \E p \in PID : TruncSendA(p)
    \/ \E p \in PID : TruncRecvA(p)
    \/ \E p \in PID : TruncSendCom(p)
    \/ \E p \in PID : TruncRecvCom(p)
    \/ \E p \in PID : TruncPeerClosed(p)

SpecTrunc == InitTrunc /\ [][NextTrunc]_vars

\* sums over the two parties of the truncate arguments at index i
TrSum(f, i) == trIn[0][i][f] + trIn[1][i][f]

TrAlpha == mac_key[0] + mac_key[1]

TrConsistentAt(i) ==
    /\ Retrieve(TrSum("wide_a_tags", i), KSSBits)
         = Retrieve(TrAlpha * TrSum("wide_a", i), KSSBits)
    /\ Retrieve(TrSum("wide_c", i), KSSBits)
         = Retrieve(TrSum("wide_a", i) * TrSum("b", i), KSSBits)
    /\ Retrieve(TrSum("wide_c_tags", i), KSSBits)
         = Retrieve(TrSum("wide_a", i) * TrSum("b_tags", i), KSSBits)
    /\ Retrieve(TrSum("b_tags", i), KSBits) = Retrieve(TrAlpha * TrSum("b", i), KSBits)

TrStarted == \A p \in PID : trPc[p] # "idle"

TrConsistent == TrStarted /\ \A i \in 1 .. Len(trIn[0]) : TrConsistentAt(i)

TrOutSum(f, i) == trOut[0][i][f] + trOut[1][i][f]

\* C5: with consistent arguments truncate returns at both parties without
\* aborting, each party's a is its wide_a shifted right by s bits, and with
\* a'' the sum of the two outputs a: sum a_tags = alpha*a'', sum c = a''*sum b
\* and sum c_tags = alpha*a''*sum b in Z/2^(k+s).
C5_TruncateConsistent ==
    TrConsistent =>
        /\ \A p \in PID : trPc[p] # "panicked"
        /\ ((\A p \in PID : TruncWaits(p)) /\ ~ENABLED TruncStep)
              => \A p \in PID : trPc[p] = "done"
        /\ \A p \in PID : trPc[p] \in {"checked", "done"} =>
              \A i \in 1 .. Len(trIn[p]) :
                  trOut[p][i].a = Retrieve(trIn[p][i].wide_a, KSSBits) \div Pow2(SBits)
        /\ (\A p \in PID : trPc[p] = "done") =>
              \A i \in 1 .. Len(trIn[0]) :
                  LET a2 == TrOutSum("a", i)
                  IN  /\ Retrieve(TrOutSum("a_tags", i), KSBits)
                           = Retrieve(TrAlpha * a2, KSBits)
                      /\ Retrieve(TrOutSum("c", i), KSBits)
                           = Retrieve(a2 * TrSum("b", i), KSBits)
                      /\ Retrieve(TrOutSum("c_tags", i), KSBits)
                           = Retrieve(TrAlpha * a2 * TrSum("b", i), KSBits)

C5_Witness ==
    /\ TrConsistent
    /\ \A p \in PID : trPc[p] = "done"
    /\ \E i \in 1 .. Len(trIn[0]) :
          /\ a_mod2s(trIn[0][i].wide_a) + a_mod2s(trIn[1][i].wide_a) >= Pow2(SBits)
          /\ TrOutSum("a", i) # 0
          /\ Retrieve(TrOutSum("c_tags", i), KSBits) # 0

\* the three hat values of party p at index i, as the code derives them from
\* the arguments and the two parties' a_mod2s
TrHatOf(p, i) ==
    LET x == trIn[p][i]
        sigma == sigma_a(a_mod2s(trIn[0][i].wide_a), a_mod2s(trIn[1][i].wide_a))
    IN  <<hat_a_tags(x.wide_a_tags, sigma, mac_key[p]),
          hat_c(x.wide_c, sigma, x.b),
          hat_c_tags(x.wide_c_tags, sigma, x.b_tags)>>

TrBadSum ==
    /\ TrStarted
    /\ \E i \in 1 .. Len(trIn[0]), j \in 1 .. 3 :
          Retrieve(TrHatOf(0, i)[j] + TrHatOf(1, i)[j], SBits) # 0

\* C6: if at some index the two parties' hat_a_tags, hat_c or hat_c_tags do not
\* sum to zero modulo 2^s, truncate aborts at party 0 and at party 1 and
\* neither party obtains an output.
C6_TruncateAborts ==
    TrBadSum =>
        /\ \A p \in PID : trPc[p] \notin {"checked", "done"} /\ trOut[p] = <<>>
        /\ ((\A p \in PID : TruncWaits(p)) /\ ~ENABLED TruncStep)
              => \A p \in PID : trPc[p] = "panicked"

C6_Witness ==
    /\ TrBadSum
    /\ \A p \in PID : trPc[p] = "panicked"
    /\ \A i \in 1 .. Len(trIn[0]) :
          Retrieve(TrHatOf(0, i)[1] + TrHatOf(1, i)[1], SBits) = 0

(***************************************************************************)
(* Plaintext polynomials (bgv/poly/power.rs).  A PowerPoly over Phi_M, M   *)
(* prime, has M-1 coefficients; coefficient index 0 belongs to X^(M-1) and *)
(* index i > 0 to X^i, and X^0 is minus the sum of all of them.  Sequences *)
(* are 1-based here: coefficient index i is position i + 1.                *)
(***************************************************************************)
ZeroPoly(n) == [i \in 1 .. n |-> 0]

\* self += rhs * X^rotate_right in (Z/m)[X]/Phi_M
add_assign_rotated(self, rhs, rotate_right, M, m) ==
    LET lhs_power(i) == ((IF i = 0 THEN M - 1 ELSE i) + rotate_right) % M
        wraps == { i \in 0 .. M - 2 : lhs_power(i) = 0 }
        minus == SumSeq([i \in 1 .. M - 1 |-> IF (i - 1) \in wraps THEN rhs[i] ELSE 0], M - 1)
    IN  [idx \in 1 .. M - 1 |->
            (self[idx] - minus
               + SumSeq([i \in 1 .. M - 1 |->
                           IF (i - 1) \notin wraps
                              /\ lhs_power(i - 1) % (M - 1) = idx - 1
                           THEN rhs[i] ELSE 0], M - 1)) % m]

PolyScale(p, c, m) == [i \in 1 .. Len(p) |-> (p[i] * c) % m]

PolyAdd(p, q, m) == [i \in 1 .. Len(p) |-> (p[i] + q[i]) % m]

PolySub(p, q, m) == [i \in 1 .. Len(p) |-> (p[i] - q[i]) % m]

\* The product of two polynomials in (Z/m)[X]/Phi_M: the factor q is
\* sum_i q_i X^power(i), and multiplying by X^r rotates by r.  This is what
\* the element-wise product of two CrtPolys is in the power basis.
RECURSIVE PolyMulFrom(_, _, _, _, _)
PolyMulFrom(p, q, i, M, m) ==
    IF i > M - 1 THEN ZeroPoly(M - 1)
    ELSE add_assign_rotated(PolyMulFrom(p, q, i + 1, M, m),
                            PolyScale(p, q[i], m),
                            IF i = 1 THEN M - 1 ELSE i - 1, M, m)

PolyMul(p, q, M, m) == PolyMulFrom(p, q, 1, M, m)

(***************************************************************************)
(* BGV ciphertexts as the dealer and the triple generator use them         *)
(* (bgv/mod.rs).  A ciphertext is represented by the public key it is      *)
(* under and the plaintext polynomial that decrypt recovers from it; the   *)
(* noise terms are left out, and the homomorphic operations are the ring   *)
(* operations they induce on the plaintext.                                *)
(***************************************************************************)
Ciphertext(pk, plain) == [pk |-> pk, plain |-> plain]

\* bgv::encrypt / bgv::encrypt_and_drown under the key of party pk
encrypt(pk, plaintext) == Ciphertext(pk, plaintext)

\* ciphertext *= &Cleartext::new(ctx, &plain)
CtMulCleartext(ct, plain, M, w) ==
    Ciphertext(ct.pk, PolyMul(ct.plain, plain, M, Pow2(w)))

\* ciphertext -= &other
CtSub(ct, other, w) == Ciphertext(ct.pk, PolySub(ct.plain, other.plain, Pow2(w)))

\* bgv::decrypt with the secret key of party sk; a ciphertext under another
\* key decrypts to noise, here the zero polynomial
decrypt(sk, ct) == IF ct.pk = sk THEN ct.plain ELSE ZeroPoly(Len(ct.plain))

(***************************************************************************)
(* LowGearDealer (low_gear_dealer/mod.rs)                                  *)
(***************************************************************************)
DealerM == 5

DealerMaxLen == 2

\* packing_capacity::<P::PlaintextParams>() = CYCLOTOMIC_DEGREE
DealerCapacity == DealerM - 1

mac_key_in_constant_term(key) ==
    encrypt(key.pid, [i \in 1 .. DealerM - 1 |->
                        IF i = 1 THEN FromUnsigned(key.val, SBits, KSBits) ELSE 0])

\* every coefficient is KS::ZERO - KS::from_unsigned(mac_key)
encrypted_mac_key(key) ==
    encrypt(key.pid, [i \in 1 .. DealerM - 1 |->
                        SubW(0, FromUnsigned(key.val, SBits, KSBits), KSBits)])

\* plain_e: random KS in the first n coefficients
plain_e(e) == [i \in 1 .. DealerM - 1 |-> IF i <= Len(e) THEN e[i] ELSE 0]

\* plain_values: KS::from_unsigned of the values in the first coefficients
plain_values(values) ==
    [i \in 1 .. DealerM - 1 |->
        IF i <= Len(values) THEN FromUnsigned(values[i], KBits, KSBits) ELSE 0]

\* remote_mac_key * Cleartext(plain_values) - encrypt_and_drown(remote_pk, plain_e)
tags_ciphertext(enc_key, remote_pk, values, e) ==
    CtSub(CtMulCleartext(enc_key, plain_values(values), DealerM, KSBits),
          encrypt(remote_pk, plain_e(e)), KSBits)

\* send_mac_tags returns *tag + val * wide_mac_key
send_tags(values, e, key) ==
    [i \in 1 .. Len(values) |->
        AddW(plain_e(e)[i],
             MulW(FromUnsigned(values[i], KBits, KSBits),
                  FromUnsigned(key, SBits, KSBits), KSBits), KSBits)]

\* recv_mac_tags: the first n coefficients of the decrypted polynomial
recv_tags(sk, ct, n) == [i \in 1 .. n |-> decrypt(sk, ct)[i]]

\* LowGearDealer::new: each party holds the other's public key and the
\* other's encrypted MAC key
DealerConstructed ==
    remote_mac_key = [p \in PID |->
        encrypted_mac_key([pid |-> Other(p), val |-> mac_key[Other(p)]])]

RECURSIVE Tuples(_, _)
Tuples(S, n) == IF n = 0 THEN {<<>>} ELSE { Append(q, x) : q \in Tuples(S, n - 1), x \in S }

DealerValues(p, n) ==
    IF p = 0 THEN Tuples({1, Pow2(KBits) - 1}, n) ELSE Tuples({0, Pow2(KBits) - 1}, n)

\* the drowning masks: all tuples over two values in a call of authenticate
\* alone, one tuple per party inside get_beaver_triples
DealerMasks(p, n) ==
    IF ppSet = "none"
    THEN IF p = 0 THEN Tuples({0, Pow2(KSBits) - 1}, n) ELSE Tuples({1, Pow2(KSBits - 1)}, n)
    ELSE { [i \in 1 .. n |-> IF p = 0 THEN Pow2(KSBits) - i ELSE i] }

\* authenticate(values) is called at both parties with vectors of one length;
\* a vector longer than the capacity panics
DealerCall ==
    /\ \A p \in PID : dlPc[p] = "idle"
    /\ \E n \in (0 .. DealerMaxLen) \cup {DealerCapacity + 1} :
        IF n > DealerCapacity
        THEN /\ dlValues' = [p \in PID |-> [i \in 1 .. n |-> 1]]
             /\ dlPc' = [p \in PID |-> "panicked"]
        ELSE /\ \E v0 \in DealerValues(0, n), v1 \in DealerValues(1, n) :
                   dlValues' = [p \in PID |-> IF p = 0 THEN v0 ELSE v1]
             /\ dlPc' = [p \in PID |-> "join"]
    /\ UNCHANGED <<mac_key, remote_mac_key, nonDealerVars, dlSent, dlRcvd, dlE,
                   dlTags, dlTags2, dlOut, ch_dealer>>

\* the end of authenticate: tags[i] += tags2[i] once both branches are through
DealerJoin(p, sent, rcvd, tags, tags2) ==
    IF sent /\ rcvd
    THEN /\ dlPc' = [dlPc EXCEPT ![p] = "done"]
         /\ dlOut' = [dlOut EXCEPT ![p] =
                        [i \in 1 .. Len(tags) |-> AddW(tags[i], tags2[i], KSBits)]]
    ELSE UNCHANGED <<dlPc, dlOut>>

\* send_mac_tags: draw plain_e, send the ciphertext, return the local tags
DealerSendTags(p) ==
    /\ dlPc[p] = "join" /\ ~dlSent[p]
    /\ \E e \in DealerMasks(p, Len(dlValues[p])) :
        /\ dlE' = [dlE EXCEPT ![p] = e]
        /\ ch_dealer' = [ch_dealer EXCEPT ![Other(p)] =
              Append(@, tags_ciphertext(remote_mac_key[p], Other(p), dlValues[p], e))]
        /\ dlTags' = [dlTags EXCEPT ![p] = send_tags(dlValues[p], e, mac_key[p])]
        /\ DealerJoin(p, TRUE, dlRcvd[p], send_tags(dlValues[p], e, mac_key[p]), dlTags2[p])
    /\ dlSent' = [dlSent EXCEPT ![p] = TRUE]
    /\ UNCHANGED <<mac_key, remote_mac_key, nonDealerVars, dlValues, dlRcvd, dlTags2>>

\* recv_mac_tags: receive the ciphertext, decrypt, keep n coefficients
DealerRecvTags(p) ==
    /\ dlPc[p] = "join" /\ ~dlRcvd[p]
    /\ ch_dealer[p] # <<>>
    /\ LET tags2 == recv_tags(p, Head(ch_dealer[p]), Len(dlValues[p]))
       IN  /\ dlTags2' = [dlTags2 EXCEPT ![p] = tags2]
           /\ DealerJoin(p, dlSent[p], TRUE, dlTags[p], tags2)
    /\ ch_dealer' = [ch_dealer EXCEPT ![p] = Tail(@)]
    /\ dlRcvd' = [dlRcvd EXCEPT ![p] = TRUE]
    /\ UNCHANGED <<mac_key, remote_mac_key, nonDealerVars, dlValues, dlSent, dlE, dlTags>>

InitDealer ==
    /\ mac_key \in MacKeys
    /\ DealerConstructed
    /\ DealerCallIdle
    /\ MacIdle
    /\ TruncIdle
    /\ ZkIdle
    /\ PpIdle
    /\ LaterIdle

NextDealer ==
    \/ DealerCall
    \/ \E p \in PID : DealerSendTags(p)
    \/ \E p \in PID : DealerRecvTags(p)

SpecDealer == InitDealer /\ [][NextDealer]_vars

\* C10: after both parties complete authenticate on v_0 and v_1 of length n,
\* tag_0[i] + tag_1[i] = (alpha_0 + alpha_1) * (v_0[i] + v_1[i]) in Z/2^(k+s)
\* for every i < n, whatever the drowning masks plain_e were.
C10_AuthenticateTags ==
    (\A p \in PID : dlPc[p] = "done") =>
        /\ \A p \in PID : Len(dlOut[p]) = Len(dlValues[p])
        /\ \A i \in 1 .. Len(dlValues[0]) :
              Retrieve(dlOut[0][i] + dlOut[1][i], KSBits)
                = Retrieve((mac_key[0] + mac_key[1]) * (dlValues[0][i] + dlValues[1][i]),
                           KSBits)

C10_Witness ==
    /\ \A p \in PID : dlPc[p] = "done" /\ Len(dlOut[p]) = DealerMaxLen
    /\ mac_key[0] + mac_key[1] >= Pow2(SBits)
    /\ \A i \in 1 .. DealerMaxLen :
          /\ dlValues[0][i] + dlValues[1][i] >= Pow2(KBits)
          /\ Retrieve(dlOut[0][i] + dlOut[1][i], KSBits) # 0
          /\ dlE[0][i] # 0

(***************************************************************************)
(* ZKPoPK (bgv/zkpopk) over R_q = Z_q[X]/Phi_M, and its use in get_a       *)
(* (low_gear_preproc/mod.rs).  One direction is modelled: one party proves *)
(* and its peer verifies; the other direction runs the same code.          *)
(***************************************************************************)
ZkM == 3                    \* PlaintextParams::M = CiphertextParams::M

ZkQ == 8191                 \* the ciphertext modulus, a prime with M | q - 1

ZkQBits == 16               \* bits of the ciphertext residue's Uint

ZkPlainBits == 2            \* PlaintextResidue::BITS

ZkExtBits == 16             \* bits of the plaintext's ExtendedUint

ZKPOPK_AMORTIZE == 2

ZKPOPK_SND_SEC == 0

ZKPOPK_INV_FAIL_PROB == 1

ZKPOPK_MAX_REPS == 2

\* the largest magnitude of the centered binomial noise drawn by prepare
ZkMaxNoise == 1

ZkDegree == ZkM - 1         \* CYCLOTOMIC_DEGREE

\* ExtendedUint::from_i64: two's complement in ZkExtBits bits
ext_from_i64(x) == x % Pow2(ZkExtBits)

\* ExtendedUint << n
ext_shl(u, n) == (u * Pow2(n)) % Pow2(ZkExtBits)

\* the integer an ExtendedUint stands for when read as a signed integer
ext_signed(u) == IF u >= Pow2(ZkExtBits - 1) THEN u - Pow2(ZkExtBits) ELSE u

\* GenericResidue::from_signed_int for the ciphertext residue: sign-extend to
\* the residue's Uint, add MODULUS (wrapping) when negative, reduce
from_signed_int(u) ==
    LET x == ext_signed(u)
    IN  IF x >= 0 THEN x % ZkQ ELSE ((x + ZkQ) % Pow2(ZkQBits)) % ZkQ

\* GenericResidue::from_i64 for the ciphertext residue
from_i64(x) == IF x >= 0 THEN x % ZkQ ELSE ((x + ZkQ) % Pow2(ZkQBits)) % ZkQ

clone_from_signed_ints(source) == [i \in 1 .. Len(source) |-> from_signed_int(source[i])]

clone_from_i64s(source) == [i \in 1 .. Len(source) |-> from_i64(source[i])]

\* the integer modulus of wrapping arithmetic: m = 0 stands for i64 values
\* that stay far from overflow
SlideNorm(x, m) == IF m = 0 THEN x ELSE x % m

\* the loop of add_assign_slided over power in from .. M - 1, with the
\* running sum; index i of a coefficient vector is i + 1 here
RECURSIVE SlideLoop(_, _, _, _, _, _, _)
SlideLoop(self, rhs, length, M, m, power, sum) ==
    IF power > M - 1 THEN self
    ELSE LET index == power % (M - 1)
             added == sum + rhs[index + 1]
             rhs_index == ((power + M - length) % M) % (M - 1)
             next == SlideNorm(IF power # length THEN added - rhs[rhs_index + 1] ELSE added, m)
         IN  SlideLoop([self EXCEPT ![index + 1] = SlideNorm(@ + next, m)],
                       rhs, length, M, m, power + 1, next)

\* a slide that also subtracts at power = length
RECURSIVE SlideLoopUnguarded(_, _, _, _, _, _, _)
SlideLoopUnguarded(self, rhs, length, M, m, power, sum) ==
    IF power > M - 1 THEN self
    ELSE LET index == power % (M - 1)
             rhs_index == ((power + M - length) % M) % (M - 1)
             next == SlideNorm(sum + rhs[index + 1] - rhs[rhs_index + 1], m)
         IN  SlideLoopUnguarded([self EXCEPT ![index + 1] = SlideNorm(@ + next, m)],
                                rhs, length, M, m, power + 1, next)

poly_slided_unguarded(self, rhs, length) ==
    IF length = 0 THEN self ELSE SlideLoopUnguarded(self, rhs, length, ZkM, ZkQ, 1, 0)

\* PowerPoly::add_assign_slided on ciphertext polynomials
poly_add_assign_slided(self, rhs, length) ==
    IF length = 0 THEN self ELSE SlideLoop(self, rhs, length, ZkM, ZkQ, 1, 0)

\* PreparedPlaintext: noised_plaintext in ExtendedUint, e_1 and v in i64
PreparedPlaintext(np, e_1, v) == [noised_plaintext |-> np, e_1 |-> e_1, v |-> v]

\* PreparedPlaintext::add_assign_slided
prepared_add_assign_slided(self, rhs, length) ==
    IF length = 0 THEN self
    ELSE PreparedPlaintext(
            SlideLoop(self.noised_plaintext, rhs.noised_plaintext, length, ZkM,
                      Pow2(ZkExtBits), 1, 0),
            SlideLoop(self.e_1, rhs.e_1, length, ZkM, 0, 1, 0),
            SlideLoop(self.v, rhs.v, length, ZkM, 0, 1, 0))

PreCiphertext(c_0, c_1) == [c_0 |-> c_0, c_1 |-> c_1]

PublicKey(a, b) == [a |-> a, b |-> b]

\* PreparedPlaintext::encrypt_into
prepared_encrypt_into(self, pk) ==
    LET scaled_e_1 == [i \in 1 .. Len(self.e_1) |->
                          ext_shl(ext_from_i64(self.e_1[i]), ZkPlainBits)]
        v == clone_from_i64s(self.v)
    IN  PreCiphertext(
            PolyAdd(PolyMul(pk.b, v, ZkM, ZkQ),
                    clone_from_signed_ints(self.noised_plaintext), ZkQ),
            PolyAdd(PolyMul(pk.a, v, ZkM, ZkQ),
                    clone_from_signed_ints(scaled_e_1), ZkQ))

\* add_centered_binomial_scaled: coefficient | (sample << BITS)
add_centered_binomial_scaled(src, samples) ==
    [i \in 1 .. Len(src) |->
        (src[i] % Pow2(ZkPlainBits)) + ext_shl(ext_from_i64(samples[i]), ZkPlainBits)]

\* bgv::prepare with the noise it draws
prepare(plaintext, e, e_1, v) ==
    PreparedPlaintext(add_centered_binomial_scaled(plaintext, e), e_1, v)

\* PublicKey::gen with the a and e it draws
PublicKeyGen(s, a, e) ==
    PublicKey(a, PolyAdd(PolyMul(a, clone_from_i64s(s), ZkM, ZkQ),
                         clone_from_signed_ints(add_centered_binomial_scaled(ZeroPoly(ZkDegree), e)),
                         ZkQ))

\* zkpopk::num_proofs: ceil((snd_sec + 2) / log2(M - 1)), the least n with
\* (M - 1)^n >= 2^(snd_sec + 2)
RECURSIVE IntPow(_, _)
IntPow(b, n) == IF n = 0 THEN 1 ELSE b * IntPow(b, n - 1)

RECURSIVE NumProofsFrom(_, _)
NumProofsFrom(snd_sec, n) ==
    IF IntPow(ZkM - 1, n) >= Pow2(snd_sec + 2) THEN n ELSE NumProofsFrom(snd_sec, n + 1)

num_proofs(snd_sec) == NumProofsFrom(snd_sec, 0)

\* check_bounds with the upper ends included
check_bounds_inclusive(prepared_plaintext, inv_fail_prob, num_ciphertexts, n_proofs) ==
    LET bound == 3 * (ZkM - 1) * (ZkM - 1) * num_ciphertexts * n_proofs * inv_fail_prob
        shifted_bound == ext_shl(ext_from_i64(21 * bound), ZkPlainBits)
        positive_bound == ext_shl(shifted_bound, 1)
    IN  /\ \A i \in 1 .. Len(prepared_plaintext.noised_plaintext) :
              ~ ((prepared_plaintext.noised_plaintext[i] + shifted_bound) % Pow2(ZkExtBits)
                    >= positive_bound + Pow2(ZkPlainBits))
        /\ \A i \in 1 .. Len(prepared_plaintext.e_1) :
              ~ (-20 * bound > prepared_plaintext.e_1[i]
                    \/ prepared_plaintext.e_1[i] > 20 * bound)
        /\ \A i \in 1 .. Len(prepared_plaintext.v) :
              ~ (-bound > prepared_plaintext.v[i] \/ prepared_plaintext.v[i] > bound)

\* zkpopk::check_bounds
check_bounds(prepared_plaintext, inv_fail_prob, num_ciphertexts, n_proofs) ==
    LET bound == 3 * (ZkM - 1) * (ZkM - 1) * num_ciphertexts * n_proofs * inv_fail_prob
        shifted_bound == ext_shl(ext_from_i64(21 * bound), ZkPlainBits)
        positive_bound == ext_shl(shifted_bound, 1)
    IN  /\ \A i \in 1 .. Len(prepared_plaintext.noised_plaintext) :
              ~ ((prepared_plaintext.noised_plaintext[i] + shifted_bound) % Pow2(ZkExtBits)
                    >= positive_bound)
        /\ \A i \in 1 .. Len(prepared_plaintext.e_1) :
              ~ (-20 * bound > prepared_plaintext.e_1[i]
                    \/ prepared_plaintext.e_1[i] >= 20 * bound)
        /\ \A i \in 1 .. Len(prepared_plaintext.v) :
              ~ (-bound > prepared_plaintext.v[i] \/ prepared_plaintext.v[i] >= bound)

\* the bound of make_pseudo_input
pseudo_bound(inv_fail_prob, num_ciphertexts, n_proofs) ==
    (3 * (ZkM - 1) * n_proofs * inv_fail_prob + 1) * (ZkM - 1) * num_ciphertexts

\* make_pseudo_input with what it draws: sample, value, e_1 and v per coefficient
make_pseudo_input(sample, value, e_1, v) ==
    PreparedPlaintext(
        [i \in 1 .. ZkDegree |->
            (value[i] % Pow2(ZkPlainBits)) + ext_shl(ext_from_i64(sample[i]), ZkPlainBits)],
        e_1, v)

\* The n-th gen_range(0..M) of ChaCha20Rng::from_seed(challenge), n >= 0: the
\* stream is a fixed function of the seed; here the seed's n-th digit to base M
chi(seed, n) == (seed \div IntPow(ZkM, n)) % ZkM

\* the inner loop of respond for proof j: acc slided by inputs i, i + 1, ...
RECURSIVE respond_accumulate(_, _, _, _, _)
respond_accumulate(acc, inputs, seed, j, i) ==
    IF i > Len(inputs) THEN acc
    ELSE respond_accumulate(
             prepared_add_assign_slided(acc, inputs[i],
                                        chi(seed, (j - 1) * Len(inputs) + (i - 1))),
             inputs, seed, j, i + 1)

\* Prover::respond: Ok(response) or Err(ResponseAborted)
respond(pseudo_inputs, inputs, challenge) ==
    LET accumulated == [j \in 1 .. Len(pseudo_inputs) |->
                           respond_accumulate(pseudo_inputs[j], inputs, challenge, j, 1)]
    IN  IF \A j \in 1 .. Len(pseudo_inputs) :
               check_bounds(accumulated[j], ZKPOPK_INV_FAIL_PROB, ZKPOPK_AMORTIZE,
                            num_proofs(ZKPOPK_SND_SEC))
        THEN [is_ok |-> TRUE, response |-> accumulated]
        ELSE [is_ok |-> FALSE, response |-> <<>>]

\* Prover::commit
commit(pseudo_inputs, pk) ==
    [j \in 1 .. Len(pseudo_inputs) |-> prepared_encrypt_into(pseudo_inputs[j], pk)]

\* the inner loop of verify for proof j
RECURSIVE verify_accumulate(_, _, _, _, _)
verify_accumulate(acc, ciphertexts, seed, j, i) ==
    IF i > Len(ciphertexts) THEN acc
    ELSE LET challenge == chi(seed, (j - 1) * Len(ciphertexts) + (i - 1))
         IN  verify_accumulate(
                 PreCiphertext(poly_add_assign_slided(acc.c_0, ciphertexts[i].c_0, challenge),
                               poly_add_assign_slided(acc.c_1, ciphertexts[i].c_1, challenge)),
                 ciphertexts, seed, j, i + 1)

\* a comparison that looks at c_0 only
pre_ciphertext_eq_c_0(x, y) == x.c_0 = y.c_0

\* PartialEq of PreCiphertext
pre_ciphertext_eq(x, y) == x.c_0 = y.c_0 /\ x.c_1 = y.c_1

\* Verifier::verify
verify(pk, ciphertexts, commitment, response, challenge) ==
    LET n_proofs == num_proofs(ZKPOPK_SND_SEC)
    IN  /\ Len(commitment) = n_proofs
        /\ Len(response) = n_proofs
        /\ \A j \in 1 .. n_proofs :
              check_bounds(response[j], ZKPOPK_INV_FAIL_PROB, ZKPOPK_AMORTIZE, n_proofs)
        /\ \A j \in 1 .. n_proofs :
              pre_ciphertext_eq(prepared_encrypt_into(response[j], pk),
                                verify_accumulate(commitment[j], ciphertexts, challenge, j, 1))

\* What prepare draws for one ciphertext of get_a: the packed plaintext and
\* the noise e, e_1 (zero or of magnitude ZkMaxNoise) and v (magnitude up to 1)
ZkInputs ==
    { prepare(<<n % Pow2(ZkPlainBits), (2 * n + 3) % Pow2(ZkPlainBits)>>,
              <<n, -n>>, <<-n, n>>, <<((n + 1) % 3) - 1, (n % 3) - 1>>) :
        n \in {-ZkMaxNoise, 0, ZkMaxNoise} }

\* What make_pseudo_input draws: small values, the least values check_bounds
\* accepts, and the greatest values check_bounds accepts
ZkPseudoInputs ==
    LET n_proofs == num_proofs(ZKPOPK_SND_SEC)
        bound == 3 * (ZkM - 1) * (ZkM - 1) * ZKPOPK_AMORTIZE * n_proofs * ZKPOPK_INV_FAIL_PROB
        const(c) == [i \in 1 .. ZkDegree |-> c]
    IN  { make_pseudo_input(<<0, 1>>, <<1, 3>>, <<0, -1>>, <<1, 0>>),
          make_pseudo_input(const(-21 * bound), const(0), const(-20 * bound), const(-bound)),
          make_pseudo_input(const(21 * bound - 1), const(Pow2(ZkPlainBits) - 1),
                            const(20 * bound - 1), const(bound - 1)) }

\* The challenges Verifier::new draws, as seeds whose digit for proof j and
\* ciphertext i is given by a pattern
ZkSeedOf(pattern) ==
    SumSeq([n \in 1 .. num_proofs(ZKPOPK_SND_SEC) * ZKPOPK_AMORTIZE |->
               pattern[((n - 1) \div ZKPOPK_AMORTIZE) + 1, ((n - 1) % ZKPOPK_AMORTIZE) + 1]
                  * IntPow(ZkM, n - 1)],
           num_proofs(ZKPOPK_SND_SEC) * ZKPOPK_AMORTIZE)

ZkSeeds ==
    LET J == 1 .. num_proofs(ZKPOPK_SND_SEC)
        I == 1 .. ZKPOPK_AMORTIZE
    IN  { ZkSeedOf([j \in J, i \in I |-> 0]),
          ZkSeedOf([j \in J, i \in I |-> 1]),
          ZkSeedOf([j \in J, i \in I |-> ZkM - 1]),
          ZkSeedOf([j \in J, i \in I |-> IF i = 1 THEN 0 ELSE 1]),
          ZkSeedOf([j \in J, i \in I |-> IF i = 2 THEN 0 ELSE ZkM - 1]),
          ZkSeedOf([j \in J, i \in I |->
                       IF i = 1 /\ j = 1 THEN 0 ELSE ((i + j) % (ZkM - 1)) + 1]) }

\* The key pairs of the proving party: PublicKey::gen on s with its draws
ZkPublicKeys ==
    { PublicKeyGen(<<1, -1>>, <<3, 5>>, <<1, 0>>),
      PublicKeyGen(<<0, 1>>, <<ZkQ - 1, 2>>, <<-1, 1>>) }

\* get_a, first branch of the join!: one iteration of the loop that encrypts
\* a fresh a and sends the ciphertext
ProverEncrypt ==
    /\ pvPc = "encrypt"
    /\ \E input \in ZkInputs :
          /\ zkInputs' = Append(zkInputs, input)
          /\ ch_ciphertext' = Append(ch_ciphertext, prepared_encrypt_into(input, zkPk))
    /\ pvPc' = IF Len(zkInputs) + 1 = ZKPOPK_AMORTIZE THEN "commit" ELSE "encrypt"
    /\ UNCHANGED <<nonZkVars, zkPk, zkPseudo, pvRep, pvDrawn, pvCommits, pvAborts, pre_cipher_a_vec,
                   vfCommitment, vfChallenge, vfPc, vfRep, vfChallenges, vfVerdict, zkTampered,
                   ch_commitment, ch_challenge, ch_response>>

\* an attempt that keeps the Prover of the attempt before
prover_of_first_attempt(rep, previous, fresh) == IF rep = 0 THEN fresh ELSE previous

\* the Prover an attempt works with: Prover::new is called inside the loop
prover_of_attempt(rep, previous, fresh) == fresh

\* get_a, first branch: Prover::new, commit and the send of the commitment
ProverCommit ==
    /\ pvPc = "commit"
    /\ \E fresh \in [1 .. num_proofs(ZKPOPK_SND_SEC) -> ZkPseudoInputs] :
          LET pseudo == prover_of_attempt(pvRep, zkPseudo, fresh)
          IN  /\ pvDrawn' = fresh
              /\ zkPseudo' = pseudo
              /\ ch_commitment' = Append(ch_commitment, commit(pseudo, zkPk))
    /\ pvCommits' = pvCommits + 1
    /\ pvPc' = "challenge"
    /\ UNCHANGED <<nonZkVars, zkPk, zkInputs, pvRep, pvAborts, pre_cipher_a_vec,
                   vfCommitment, vfChallenge, vfPc, vfRep, vfChallenges, vfVerdict, zkTampered,
                   ch_ciphertext, ch_challenge, ch_response>>

\* the prover's loop exit: break on Ok, panic after the last rep, else repeat
prover_after_response(is_ok, rep) ==
    IF is_ok THEN "done"
    ELSE IF rep = ZKPOPK_MAX_REPS - 1 THEN "panicked" ELSE "commit"

\* get_a, first branch: receive the challenge, respond, send the response
ProverRespond ==
    /\ pvPc = "challenge"
    /\ ch_challenge # <<>>
    /\ LET response == respond(zkPseudo, zkInputs, Head(ch_challenge))
       IN  /\ ch_response' = Append(ch_response, response)
           /\ pvPc' = prover_after_response(response.is_ok, pvRep)
           /\ pvRep' = IF prover_after_response(response.is_ok, pvRep) = "commit"
                       THEN pvRep + 1 ELSE pvRep
           /\ pvAborts' = IF response.is_ok THEN pvAborts ELSE pvAborts + 1
    /\ ch_challenge' = Tail(ch_challenge)
    /\ UNCHANGED <<nonZkVars, zkPk, zkInputs, zkPseudo, pvDrawn, pvCommits, pre_cipher_a_vec,
                   vfCommitment, vfChallenge, vfPc, vfRep, vfChallenges, vfVerdict, zkTampered,
                   ch_ciphertext, ch_commitment>>

\* a verifier that goes on to the commitment after the first ciphertext
verifier_after_first_ciphertext(received) == "commitment"

\* the verifier's first loop ends after ZKPOPK_AMORTIZE ciphertexts
verifier_after_ciphertext(received) ==
    IF received = ZKPOPK_AMORTIZE THEN "commitment" ELSE "ciphertexts"

\* get_a, second branch of the join!: one iteration of the loop that
\* receives the peer's ciphertexts
VerifierRecvCiphertext ==
    /\ vfPc = "ciphertexts"
    /\ ch_ciphertext # <<>>
    /\ pre_cipher_a_vec' = Append(pre_cipher_a_vec, Head(ch_ciphertext))
    /\ ch_ciphertext' = Tail(ch_ciphertext)
    /\ vfPc' = verifier_after_ciphertext(Len(pre_cipher_a_vec) + 1)
    /\ UNCHANGED <<nonZkVars, zkPk, zkInputs, zkPseudo, pvPc, pvRep, pvDrawn, pvCommits,
                   pvAborts, vfCommitment, vfChallenge, vfRep, vfChallenges, vfVerdict,
                   zkTampered, ch_commitment, ch_challenge, ch_response>>

\* get_a, second branch: receive the commitment, Verifier::new, send the challenge
VerifierChallenge ==
    /\ vfPc = "commitment"
    /\ ch_commitment # <<>>
    /\ vfCommitment' = Head(ch_commitment)
    /\ ch_commitment' = Tail(ch_commitment)
    /\ \E challenge \in ZkSeeds :
          /\ vfChallenge' = challenge
          /\ ch_challenge' = Append(ch_challenge, challenge)
    /\ vfChallenges' = vfChallenges + 1
    /\ vfPc' = "response"
    /\ UNCHANGED <<nonZkVars, zkPk, zkInputs, zkPseudo, pvPc, pvRep, pvDrawn, pvCommits,
                   pvAborts, pre_cipher_a_vec, vfRep, vfVerdict, zkTampered,
                   ch_ciphertext, ch_response>>

\* a verifier that gives a failed verification another attempt
verifier_retries_failed_verify(is_ok, verified, rep) ==
    IF is_ok /\ verified THEN "done"
    ELSE IF rep = ZKPOPK_MAX_REPS - 1 THEN "panicked_reps" ELSE "commitment"

\* the verifier's loop exit: on Ok, panic unless verified, then break; on
\* ResponseAborted panic after the last rep, else repeat
verifier_after_response(is_ok, verified, rep) ==
    IF is_ok THEN (IF verified THEN "done" ELSE "panicked_verify")
    ELSE IF rep = ZKPOPK_MAX_REPS - 1 THEN "panicked_reps" ELSE "commitment"

\* get_a, second branch: receive the response and verify it
VerifierRecvResponse ==
    /\ vfPc = "response"
    /\ ch_response # <<>>
    /\ LET response == Head(ch_response)
           verified == response.is_ok
                          /\ verify(zkPk, pre_cipher_a_vec, vfCommitment,
                                    response.response, vfChallenge)
           next == verifier_after_response(response.is_ok, verified, vfRep)
       IN  /\ vfVerdict' = IF ~response.is_ok THEN vfVerdict
                           ELSE IF verified THEN "true" ELSE "false"
           /\ vfPc' = next
           /\ vfRep' = IF next = "commitment" THEN vfRep + 1 ELSE vfRep
    /\ ch_response' = Tail(ch_response)
    /\ UNCHANGED <<nonZkVars, zkPk, zkInputs, zkPseudo, pvPc, pvRep, pvDrawn, pvCommits,
                   pvAborts, pre_cipher_a_vec, vfCommitment, vfChallenge, vfChallenges,
                   zkTampered, ch_ciphertext, ch_commitment, ch_challenge>>

\* One coefficient of one ciphertext is changed on its way to the verifier,
\* so that it is no longer the encryption of the prover's input
ZkTamper ==
    /\ zkTampered = 0
    /\ ch_ciphertext # <<>>
    /\ \E at \in {<<"c_0", 1>>, <<"c_1", ZkDegree>>} :
          LET ct == Head(ch_ciphertext)
              changed == [ct[at[1]] EXCEPT ![at[2]] = (@ + 1) % ZkQ]
          IN  ch_ciphertext' = <<[ct EXCEPT ![at[1]] = changed]>> \o Tail(ch_ciphertext)
    /\ zkTampered' = Len(pre_cipher_a_vec) + 1
    /\ UNCHANGED <<nonZkVars, zkPk, zkInputs, zkPseudo, pvPc, pvRep, pvDrawn, pvCommits,
                   pvAborts, pre_cipher_a_vec, vfCommitment, vfChallenge, vfPc, vfRep,
                   vfChallenges, vfVerdict, ch_commitment, ch_challenge, ch_response>>

\* get_a has been called with an empty a_stack
InitZk ==
    /\ mac_key = [p \in PID |-> 0]
    /\ MacIdle
    /\ TruncIdle
    /\ DealerIdle
    /\ PpIdle
    /\ LaterIdle
    /\ zkPk \in ZkPublicKeys
    /\ zkInputs = <<>>
    /\ zkPseudo = <<>>
    /\ pvPc = "encrypt"
    /\ pvRep = 0
    /\ pvDrawn = <<>>
    /\ pvCommits = 0
    /\ pvAborts = 0
    /\ pre_cipher_a_vec = <<>>
    /\ vfCommitment = <<>>
    /\ vfChallenge = 0
    /\ vfPc = "ciphertexts"
    /\ vfRep = 0
    /\ vfChallenges = 0
    /\ vfVerdict = "none"
    /\ zkTampered = 0
    /\ ch_ciphertext = <<>>
    /\ ch_commitment = <<>>
    /\ ch_challenge = <<>>
    /\ ch_response = <<>>

NextZk ==
    \/ ProverEncrypt
    \/ ProverCommit
    \/ ProverRespond
    \/ VerifierRecvCiphertext
    \/ VerifierChallenge
    \/ VerifierRecvResponse
    \/ ZkTamper

SpecZk == InitZk /\ [][NextZk]_vars

\* C7: when the ciphertexts reach the verifier as Prover::encrypt_into made
\* them, every Ok response of Prover::respond passes Verifier::verify, for
\* every commitment and every challenge.
C7_ZkComplete ==
    zkTampered = 0 => vfVerdict \in {"none", "true"}

C7_Witness ==
    /\ zkTampered = 0
    /\ vfVerdict = "true"
    /\ vfPc = "done"
    /\ \A j \in 1 .. num_proofs(ZKPOPK_SND_SEC), i \in 1 .. ZKPOPK_AMORTIZE :
          chi(vfChallenge, (j - 1) * ZKPOPK_AMORTIZE + (i - 1)) # 0
    /\ \E i \in 1 .. ZKPOPK_AMORTIZE : zkInputs[i].e_1[1] # 0

\* the challenges chi_(j, i) that the seed gives ciphertext i over the proofs
ZkChallengesOf(seed, i) ==
    { chi(seed, (j - 1) * ZKPOPK_AMORTIZE + (i - 1)) : j \in 1 .. num_proofs(ZKPOPK_SND_SEC) }

\* verify has run on an honest commitment and an honest Ok response while
\* exactly one ciphertext of the list differs from the encryption of its input
ZkVerifiedTampered ==
    /\ zkTampered # 0
    /\ vfVerdict # "none"
    /\ vfPc \in {"done", "panicked_verify"}

\* C8 as amended: with exactly one ciphertext i changed, verify returns false
\* exactly when the challenge slides ciphertext i into at least one proof,
\* i.e. some chi_(j, i) is nonzero; when every chi_(j, i) is zero the changed
\* ciphertext never enters the comparison and verify returns true.
C8_TamperedRejectedIffSlided ==
    ZkVerifiedTampered =>
        (vfVerdict = "false" <=> ZkChallengesOf(vfChallenge, zkTampered) # {0})

C8_Witness ==
    /\ ZkVerifiedTampered
    /\ vfVerdict = "false"
    /\ 0 \in ZkChallengesOf(vfChallenge, zkTampered)
    /\ \E i \in 1 .. ZKPOPK_AMORTIZE : i # zkTampered /\ 0 \notin ZkChallengesOf(vfChallenge, i)

\* C8 as claimed: with exactly one ciphertext changed, verify returns false
C8_TamperedRejected ==
    ZkVerifiedTampered => vfVerdict = "false"

\* both branches of get_a's join! have left their attempt loops
ZkBothFinished ==
    /\ pvPc \in {"done", "panicked"}
    /\ vfPc \in {"done", "panicked_verify", "panicked_reps"}

\* C9: in get_a an attempt is repeated only after a ResponseAborted (the
\* commitments sent are one more than the aborted responses, the challenges
\* one more than the aborted responses received); the commitment of every
\* attempt is made from pseudo-inputs sampled in that attempt and every
\* attempt gets a challenge of its own; prover and verifier make the same
\* number of attempts, at most ZKPOPK_MAX_REPS; both panic when the last
\* allowed attempt is aborted too; a response that fails verify panics the
\* verifier at once and is never retried.
C9_GetARetries ==
    /\ pvCommits = pvAborts + (IF pvPc \in {"challenge", "done"} THEN 1 ELSE 0)
    /\ vfChallenges = vfRep + (IF vfPc \in {"ciphertexts", "commitment"} THEN 0 ELSE 1)
    /\ pvPc \in {"challenge", "done", "panicked"} => zkPseudo = pvDrawn
    /\ vfChallenges <= pvCommits
    /\ pvCommits <= ZKPOPK_MAX_REPS
    /\ ZkBothFinished => pvCommits = vfChallenges
    /\ pvPc = "panicked" <=> pvAborts = ZKPOPK_MAX_REPS
    /\ (ZkBothFinished /\ pvPc = "panicked") => vfPc = "panicked_reps"
    /\ vfPc = "panicked_reps" => pvPc = "panicked"
    /\ vfVerdict = "false" <=> vfPc = "panicked_verify"
    /\ vfPc = "panicked_verify" => vfChallenges = pvAborts + 1

C9_Witness ==
    /\ pvPc = "panicked"
    /\ vfPc = "panicked_reps"
    /\ pvCommits = ZKPOPK_MAX_REPS
    /\ vfChallenges = ZKPOPK_MAX_REPS


(***************************************************************************)
(* LowGearPreprocessor::get_beaver_triples (low_gear_preproc/mod.rs) with  *)
(* the tweaked interpolation packing (bgv/tweaked_interpolation_packing.rs)*)
(* The plaintext ring is scaled down to FACTOR_COUNT = 1 and               *)
(* FACTOR_DEGREE = 1: a CrtPoly is one coefficient of Z/2^b, its only      *)
(* Lagrange polynomial is the constant 2^DELTA, and the product of two     *)
(* plaintexts is the product of their coefficients.                        *)
(***************************************************************************)
PpDelta == 1

PpFactorCount == 1

PpFactorDegree == 1

PpSets == {"ToyPreprocK32S32", "PreprocK32S32"}

\* PlaintextParams::Residue::BITS of a parameter set.  Phi337ModT86 has
\* 86 = k + s + 2 * DELTA + 6 bits, Phi43691ModT135 has
\* 135 = k + 2s + 2 * DELTA + 9 bits.
PlainBits(set) ==
    IF set = "ToyPreprocK32S32" THEN KSBits + 2 * PpDelta + 1
    ELSE KSSBits + 2 * PpDelta + 1

packing_capacity_per_slot == (PpFactorDegree + 1) \div 2

packing_capacity == PpFactorCount * packing_capacity_per_slot

\* shl_vartime / shr_vartime of a residue of Z/2^w: the residue is a w-bit
\* integer, shifted left within its w bits or shifted right as an integer
residue_shl_vartime(x, n, w) == Retrieve(Retrieve(x, w) * Pow2(n), w)

residue_shr_vartime(x, n, w) == Retrieve(x, w) \div Pow2(n)

\* pack: result += from_unsigned(entry) * lp, lp = 2^DELTA / denom with denom = 1
pack(unpacked, from, w) ==
    [j \in 1 .. packing_capacity |->
        IF j <= Len(unpacked)
        THEN MulW(FromUnsigned(unpacked[j], from, w), residue_shl_vartime(1, PpDelta, w), w)
        ELSE 0]

\* pack_diagonal: from_unsigned(unpacked).shl_vartime(DELTA) in the constant
\* coefficient of every slot
pack_diagonal(unpacked, from, w) ==
    [j \in 1 .. packing_capacity |->
        residue_shl_vartime(FromUnsigned(unpacked, from, w), PpDelta, w)]

\* pack_mask: every coefficient of pack(unpacked) shifted left by DELTA
pack_mask(unpacked, from, w) ==
    [j \in 1 .. packing_capacity |->
        residue_shl_vartime(pack(unpacked, from, w)[j], PpDelta, w)]

\* unpack: T::from_unsigned(evaluated.shr_vartime(2 * DELTA)), with no check
\* that evaluated is divisible by 2^(2 DELTA)
unpack(crt, w, to) ==
    [j \in 1 .. packing_capacity |->
        FromUnsigned(residue_shr_vartime(crt[j], 2 * PpDelta, w), w, to)]

\* cipher *= &Cleartext::new(plain): slot-wise product of the plaintexts
CtMulSlots(ct, plain, w) ==
    Ciphertext(ct.pk, [j \in 1 .. Len(ct.plain) |-> MulW(ct.plain[j], plain[j], w)])

\* share << n: val and tag shifted left within KS
share_shl(share, n) ==
    Share(residue_shl_vartime(share.val, n, KSBits),
          residue_shl_vartime(share.tag, n, KSBits))

\* let r = Share(KS(input.pop()), output.pop()); let m = ...; m + (r << K::BITS)
batch_check_mask_of(input, output) ==
    LET n == Len(input)
        r == Share(FromUnsigned(input[n], KBits, KSBits), output[n])
        m == Share(FromUnsigned(input[n - 1], KBits, KSBits), output[n - 1])
    IN  ShareAdd(m, share_shl(r, KBits))

\* the cleartext factor of the i-th cipher_d (i = 0, 1, 2)
vole_factor(i, key, unpacked_b, unpacked_b_tags, w) ==
    IF i = 0 THEN pack_diagonal(key, SBits, w)
    ELSE IF i = 1
         THEN pack([j \in 1 .. Len(unpacked_b) |->
                       FromUnsigned(unpacked_b[j], KBits, KSSBits)], KSSBits, w)
         ELSE pack([j \in 1 .. Len(unpacked_b_tags) |->
                       FromUnsigned(unpacked_b_tags[j], KSBits, KSSBits)], KSSBits, w)

\* cipher_d = cipher_a * factor - encrypt_and_drown(remote_pk, pack_mask(unpacked_e))
cipher_d(cipher_a, factor, remote_pk, unpacked_e, w) ==
    CtSub(CtMulSlots(cipher_a, factor, w),
          encrypt(remote_pk, pack_mask(unpacked_e, KSSBits, w)), w)

\* *t += *d + *e for the decrypted and unpacked cipher_d
vole_target(target, sk, ct, unpacked_e, w) ==
    LET unpacked_d == unpack(decrypt(sk, ct), w, KSSBits)
    IN  [j \in 1 .. Len(target) |->
            AddW(target[j], AddW(unpacked_d[j], unpacked_e[j], KSSBits), KSSBits)]

\* The samples of the random draws of one iteration: the first iteration
\* ranges over several values, the later ones over one
PpKeys == { <<1, Pow2(SBits) - 1>>, <<Pow2(SBits) - 1, Pow2(SBits) - 1>> }

PpUnpackedA(iter) ==
    IF iter = 0
    THEN { <<Pow2(SBits) - 1, Pow2(KSBits) - 1>>, <<Pow2(SBits) + 1, Pow2(KSBits - 1)>> }
    ELSE { <<1, Pow2(SBits)>> }

PpInputs(p, iter) ==
    IF iter = 0 /\ p = 0
    THEN { <<1, 2, Pow2(KBits) - 1>>, <<Pow2(KBits) - 1, 0, 1>> }
    ELSE { <<Pow2(KBits) - 1, 1, 2>> }

PpUnpackedE(p, iter) ==
    IF iter = 0 /\ p = 0
    THEN { <<1, 0, Pow2(KSSBits) - 1>>, <<0, 0, 0>> }
    ELSE { <<1, Pow2(KSSBits - 1) + 1, 2>> }

PpNoLoc ==
    [unpacked_wide_a |-> <<>>, cipher_a |-> Ciphertext(0, <<>>), wide_a_tags |-> <<>>,
     input |-> <<>>, mask |-> NoShare, b |-> <<>>, b_tags |-> <<>>, wide_c |-> <<>>,
     wide_c_tags |-> <<>>, e_arr |-> <<>>, sent |-> 0, rcvd |-> 0]

\* a get_a that pushes the ciphertexts whatever verify returned
get_a_ignores_verify(verified) == "push"

\* get_a after the join!: a verifier whose verify returned false has
\* panicked, otherwise the ciphertexts are pushed on a_stack
get_a_after_join(verified) == IF verified THEN "push" ELSE "panicked"

\* get_a with an empty a_stack: the parties exchange ZKPOPK_AMORTIZE
\* ciphertexts of packed random a, each with a proof that the verifier
\* accepts or rejects, and each party whose verify returned true pushes
\* (its unpacked_a, the ciphertext of the peer's a)
GetAFill ==
    /\ \A p \in PID : ppPc[p] = "get_a" /\ a_stack[p] = <<>>
    /\ \E first \in PpUnpackedA(0), verified \in [PID -> BOOLEAN] :
        LET drawn(n) == IF n = ZKPOPK_AMORTIZE THEN first
                        ELSE CHOOSE x \in PpUnpackedA(1) : TRUE
            w == PlainBits(ppSet)
        IN  /\ a_stack' = [p \in PID |->
                 IF get_a_after_join(verified[p]) = "panicked" THEN a_stack[p]
                 ELSE [n \in 1 .. ZKPOPK_AMORTIZE |->
                        [unpacked_a |-> [j \in 1 .. packing_capacity |->
                                            FromUnsigned(drawn(n)[p + 1], KSBits, KSSBits)],
                         cipher_a |-> encrypt(Other(p),
                                        pack([j \in 1 .. packing_capacity |->
                                                FromUnsigned(drawn(n)[2 - p], KSBits, KSSBits)],
                                             KSSBits, w))]]]
            /\ ppZk' = [p \in PID |-> IF verified[p] THEN "verified" ELSE "failed"]
            /\ ppPc' = [p \in PID |->
                 IF get_a_after_join(verified[p]) = "panicked" THEN "panicked" ELSE ppPc[p]]
    /\ UNCHANGED <<macVars, truncVars, dealerVars, zkVars, laterVars, ppSet, ppIter, ppLoc,
                   ppTriples, ppTampered, ch_ciphertext_back>>

\* the start of an iteration: a_stack.pop(), unpacked_wide_a_tags, the
\* input of capacity + 2 random K, and the call of dealer.authenticate
PpAuthenticate(p) ==
    /\ ppPc[p] = "get_a" /\ a_stack[p] # <<>>
    /\ LET top == a_stack[p][Len(a_stack[p])]
       IN  \E input \in PpInputs(p, ppIter[p]) :
             /\ ppLoc' = [ppLoc EXCEPT ![p] =
                  [PpNoLoc EXCEPT
                     !.unpacked_wide_a = top.unpacked_a,
                     !.cipher_a = top.cipher_a,
                     !.wide_a_tags = [j \in 1 .. Len(top.unpacked_a) |->
                         MulW(top.unpacked_a[j],
                              FromUnsigned(mac_key[p], SBits, KSSBits), KSSBits)],
                     !.input = input]]
             /\ dlValues' = [dlValues EXCEPT ![p] = input]
             /\ dlPc' = [dlPc EXCEPT ![p] =
                           IF Len(input) > DealerCapacity THEN "panicked" ELSE "join"]
    /\ a_stack' = [a_stack EXCEPT ![p] = SubSeq(@, 1, Len(@) - 1)]
    /\ ppPc' = [ppPc EXCEPT ![p] = "authenticate"]
    /\ dlSent' = [dlSent EXCEPT ![p] = FALSE]
    /\ dlRcvd' = [dlRcvd EXCEPT ![p] = FALSE]
    /\ UNCHANGED <<macVars, truncVars, zkVars, laterVars, remote_mac_key, dlE, dlTags, dlTags2, dlOut,
                   ch_dealer, ppSet, ppIter, ppTriples, ppTampered, ppZk, ch_ciphertext_back>>

\* authenticate has returned: the mask, b and its tags, the local products
\* and the three unpacked_e
PpVoleStart(p) ==
    /\ ppPc[p] = "authenticate" /\ dlPc[p] = "done"
    /\ LET loc == ppLoc[p]
           n == Len(loc.input)
           b == SubSeq(loc.input, 1, n - 2)
           b_tags == SubSeq(dlOut[p], 1, n - 2)
       IN  \E e \in PpUnpackedE(p, ppIter[p]) :
             ppLoc' = [ppLoc EXCEPT ![p] =
                [loc EXCEPT
                   !.mask = batch_check_mask_of(loc.input, dlOut[p]),
                   !.b = b,
                   !.b_tags = b_tags,
                   !.wide_c = [j \in 1 .. Len(b) |->
                       MulW(loc.unpacked_wide_a[j],
                            FromUnsigned(b[j], KBits, KSSBits), KSSBits)],
                   !.wide_c_tags = [j \in 1 .. Len(b) |->
                       MulW(loc.unpacked_wide_a[j],
                            FromUnsigned(b_tags[j], KSBits, KSSBits), KSSBits)],
                   !.e_arr = [i \in 1 .. 3 |-> [j \in 1 .. packing_capacity |-> e[i]]]]]
    /\ ppPc' = [ppPc EXCEPT ![p] = "vole"]
    /\ UNCHANGED <<macVars, truncVars, dealerVars, zkVars, laterVars, ppSet, a_stack, ppIter,
                   ppTriples, ppTampered, ppZk, ch_ciphertext_back>>

\* the end of the VOLE join!: truncer.truncate is called with the six vectors
VoleJoin(p, loc) ==
    IF loc.sent = 3 /\ loc.rcvd = 3
    THEN /\ ppPc' = [ppPc EXCEPT ![p] = "truncate"]
         /\ trIn' = [trIn EXCEPT ![p] =
               [j \in 1 .. Len(loc.unpacked_wide_a) |->
                  [wide_a |-> loc.unpacked_wide_a[j],
                   wide_a_tags |-> loc.wide_a_tags[j],
                   b |-> loc.b[j],
                   b_tags |-> loc.b_tags[j],
                   wide_c |-> loc.wide_c[j],
                   wide_c_tags |-> loc.wide_c_tags[j]]]]
         /\ trPc' = [trPc EXCEPT ![p] = "recv_a"]
         /\ trSentA' = [trSentA EXCEPT ![p] = FALSE]
         /\ trSentCom' = [trSentCom EXCEPT ![p] = FALSE]
    ELSE UNCHANGED <<ppPc, trIn, trPc, trSentA, trSentCom>>

\* the send branch: the next cipher_d goes to the peer
PpVoleSend(p) ==
    /\ ppPc[p] = "vole" /\ ppLoc[p].sent < 3
    /\ LET loc == ppLoc[p]
           w == PlainBits(ppSet)
           i == loc.sent
           d == cipher_d(loc.cipher_a,
                         vole_factor(i, mac_key[p], loc.b, loc.b_tags, w),
                         Other(p), loc.e_arr[i + 1], w)
           after == [loc EXCEPT !.sent = i + 1]
       IN  /\ ch_ciphertext_back' = [ch_ciphertext_back EXCEPT ![Other(p)] = Append(@, d)]
           /\ ppLoc' = [ppLoc EXCEPT ![p] = after]
           /\ VoleJoin(p, after)
    /\ UNCHANGED <<macVars, dealerVars, zkVars, laterVars, trHat, trCom, trOut, ch_a, ch_com,
                   ppSet, a_stack, ppIter, ppTriples, ppTampered, ppZk>>

\* the receive branch: decrypt and unpack the next cipher_d, add d + e to
\* unpacked_wide_a_tags, unpacked_wide_c or unpacked_wide_c_tags
PpVoleRecv(p) ==
    /\ ppPc[p] = "vole" /\ ppLoc[p].rcvd < 3
    /\ ch_ciphertext_back[p] # <<>>
    /\ LET loc == ppLoc[p]
           w == PlainBits(ppSet)
           i == loc.rcvd
           ct == Head(ch_ciphertext_back[p])
           e == loc.e_arr[i + 1]
           after ==
             [loc EXCEPT
                !.rcvd = i + 1,
                !.wide_a_tags = IF i = 0 THEN vole_target(@, p, ct, e, w) ELSE @,
                !.wide_c = IF i = 1 THEN vole_target(@, p, ct, e, w) ELSE @,
                !.wide_c_tags = IF i = 2 THEN vole_target(@, p, ct, e, w) ELSE @]
       IN  /\ ppLoc' = [ppLoc EXCEPT ![p] = after]
           /\ VoleJoin(p, after)
    /\ ch_ciphertext_back' = [ch_ciphertext_back EXCEPT ![p] = Tail(@)]
    /\ UNCHANGED <<macVars, dealerVars, zkVars, laterVars, trHat, trCom, trOut, ch_a, ch_com,
                   ppSet, a_stack, ppIter, ppTriples, ppTampered, ppZk>>

\* BeaverTriple::new(Share(a, a_tag), Share(KS::from_unsigned(b), b_tag), Share(c, c_tag))
triples_of(loc, out) ==
    [j \in 1 .. Len(out) |->
        [a |-> Share(out[j].a, out[j].a_tags),
         b |-> Share(FromUnsigned(loc.b[j], KBits, KSBits), loc.b_tags[j]),
         c |-> Share(out[j].c, out[j].c_tags)]]

\* truncate has returned: triples.extend(..), then the call of
\* opener.batch_check([], batch_check_mask) with a fresh local_seed
PpBatchCheck(p) ==
    /\ ppPc[p] = "truncate" /\ trPc[p] = "done"
    /\ ppTriples' = [ppTriples EXCEPT ![p] = @ \o triples_of(ppLoc[p], trOut[p])]
    /\ ppPc' = [ppPc EXCEPT ![p] = "batch_check"]
    /\ mcOp' = "batch"
    /\ mcShares' = [mcShares EXCEPT ![p] = <<>>]
    /\ mcArg' = [mcArg EXCEPT ![p] = ppLoc[p].mask]
    /\ mcMask' = [mcMask EXCEPT ![p] = ppLoc[p].mask]
    /\ mcSeed' = [mcSeed EXCEPT ![p] = p + 1]
    /\ mcPc' = [mcPc EXCEPT ![p] = "seed"]
    /\ mcSent' = [mcSent EXCEPT ![p] = FALSE]
    /\ mcRcvd' = [mcRcvd EXCEPT ![p] = FALSE]
    /\ mcResult' = [mcResult EXCEPT ![p] = "none"]
    /\ UNCHANGED <<mac_key, mcVal, mcZ, mcOut, ch_values, ch_seed, truncVars, dealerVars,
                   zkVars, laterVars, ppSet, a_stack, ppIter, ppLoc, ppTampered, ppZk, ch_ciphertext_back>>

\* a loop that ends one iteration early
after_batch_check_one_short(result, iter, stack) ==
    IF result # "Ok" THEN "panicked"
    ELSE IF iter + 2 < ZKPOPK_AMORTIZE THEN "get_a"
    ELSE IF stack # <<>> THEN "panicked"
    ELSE "returned"

\* batch_check(..).await.unwrap(), then the next iteration or, after the
\* last one, assert!(a_stack.is_empty()) and the return of triples
after_batch_check(result, iter, stack) ==
    IF result # "Ok" THEN "panicked"
    ELSE IF iter + 1 < ZKPOPK_AMORTIZE THEN "get_a"
    ELSE IF stack # <<>> THEN "panicked"
    ELSE "returned"

PpReturn(p) ==
    /\ ppPc[p] = "batch_check" /\ mcPc[p] = "done"
    /\ ppPc' = [ppPc EXCEPT ![p] = after_batch_check(mcResult[p], ppIter[p], a_stack[p])]
    /\ ppIter' = [ppIter EXCEPT ![p] =
                    IF mcResult[p] = "Ok" /\ @ + 1 < ZKPOPK_AMORTIZE THEN @ + 1 ELSE @]
    /\ UNCHANGED <<macVars, truncVars, dealerVars, zkVars, laterVars, ppSet, a_stack, ppLoc,
                   ppTriples, ppTampered, ppZk, ch_ciphertext_back>>

\* The offsets a dishonest party 1 adds to the slot value that party 0
\* unpacks from a cipher_d
PpOffsets == {1, Pow2(SBits)}

\* Party 1 departs from the protocol: the cipher_d that party 0 receives
\* next decrypts to slot values offset by u
PpTamperD ==
    /\ ppTampered = 0
    /\ ch_ciphertext_back[0] # <<>>
    /\ ppPc[0] = "vole"
    /\ \E u \in PpOffsets :
        LET w == PlainBits(ppSet)
            ct == Head(ch_ciphertext_back[0])
            changed == Ciphertext(ct.pk,
                         [j \in 1 .. Len(ct.plain) |->
                            AddW(ct.plain[j], residue_shl_vartime(u, 2 * PpDelta, w), w)])
        IN  ch_ciphertext_back' = [ch_ciphertext_back EXCEPT ![0] = <<changed>> \o Tail(@)]
    /\ ppTampered' = ppLoc[0].rcvd + 1
    /\ UNCHANGED <<macVars, truncVars, dealerVars, zkVars, laterVars, ppSet, a_stack, ppPc, ppIter,
                   ppLoc, ppTriples, ppZk>>

\* Party 1 departs from the protocol in authenticate: the tag that party 0
\* decrypts for the last value of its input, the r of the batch check mask,
\* is off by one
PpTamperTags ==
    /\ ppTampered = 0
    /\ ppPc[0] = "authenticate"
    /\ ch_dealer[0] # <<>>
    /\ LET ct == Head(ch_dealer[0])
           n == Len(dlValues[0])
           changed == Ciphertext(ct.pk, [ct.plain EXCEPT ![n] = AddW(@, 1, KSBits)])
       IN  ch_dealer' = [ch_dealer EXCEPT ![0] = <<changed>> \o Tail(@)]
    /\ ppTampered' = 4
    /\ UNCHANGED <<macVars, truncVars, zkVars, laterVars, remote_mac_key, dlValues, dlPc, dlSent,
                   dlRcvd, dlE, dlTags, dlTags2, dlOut, ppSet, a_stack, ppPc, ppIter, ppLoc,
                   ppTriples, ppZk, ch_ciphertext_back>>

InitPreproc ==
    /\ \E key \in PpKeys : mac_key = [p \in PID |-> key[p + 1]]
    /\ DealerConstructed
    /\ DealerCallIdle
    /\ MacIdle
    /\ TruncIdle
    /\ ZkIdle
    /\ LaterIdle
    /\ ppSet \in PpSets
    /\ a_stack = [p \in PID |-> <<>>]
    /\ ppPc = [p \in PID |-> "get_a"]
    /\ ppIter = [p \in PID |-> 0]
    /\ ppLoc = [p \in PID |-> PpNoLoc]
    /\ ppTriples = [p \in PID |-> <<>>]
    /\ ppTampered = 0
    /\ ppZk = [p \in PID |-> "none"]
    /\ ch_ciphertext_back = [p \in PID |-> <<>>]

NextPreproc ==
    \/ GetAFill
    \/ \E p \in PID : PpAuthenticate(p)
    \/ \E p \in PID : DealerSendTags(p)
    \/ \E p \in PID : DealerRecvTags(p)
    \/ \E p \in PID : PpVoleStart(p)
    \/ \E p \in PID : PpVoleSend(p)
    \/ \E p \in PID : PpVoleRecv(p)
    \/ PpTamperD
    \/ PpTamperTags
    \/ \E p \in PID : TruncSendA(p)
    \/ \E p \in PID : TruncRecvA(p)
    \/ \E p \in PID : TruncSendCom(p)
    \/ \E p \in PID : TruncRecvCom(p)
    \/ \E p \in PID : TruncPeerClosed(p)
    \/ \E p \in PID : PpBatchCheck(p)
    \/ \E p \in PID : BatchSendSeed(p)
    \/ \E p \in PID : BatchRecvSeed(p)
    \/ \E p \in PID : SingleSendVal(p)
    \/ \E p \in PID : SingleRecvVal(p)
    \/ \E p \in PID : SingleSendZ(p)
    \/ \E p \in PID : SingleRecvZ(p)
    \/ \E p \in PID : PpReturn(p)

SpecPreproc == InitPreproc /\ [][NextPreproc]_vars

\* sums over the two parties of a field of the j-th returned triple
PpAlpha == mac_key[0] + mac_key[1]

TripleVal(j, f) == ppTriples[0][j][f].val + ppTriples[1][j][f].val

TripleTag(j, f) == ppTriples[0][j][f].tag + ppTriples[1][j][f].tag

TripleMacHolds(j, f) ==
    Retrieve(TripleTag(j, f), KSBits) = Retrieve(PpAlpha * TripleVal(j, f), KSBits)

TripleProductHolds(j) ==
    Retrieve(TripleVal(j, "a") * TripleVal(j, "b"), KBits) = Retrieve(TripleVal(j, "c"), KBits)

TriplesAuthentic ==
    /\ Len(ppTriples[0]) = Len(ppTriples[1])
    /\ \A j \in 1 .. Len(ppTriples[0]) : \A f \in {"a", "b", "c"} : TripleMacHolds(j, f)

\* C1: for every parameter set, the toy set included, when both parties
\* follow the protocol and get_beaver_triples returns at both, every triple
\* satisfies a * b = c modulo 2^k and tag_0 + tag_1 = alpha * (val_0 + val_1)
\* modulo 2^(k+s) for a, b and c.
C1_TriplesCorrect ==
    (ppTampered = 0 /\ \A p \in PID : ppPc[p] = "returned") =>
        /\ TriplesAuthentic
        /\ Len(ppTriples[0]) = ZKPOPK_AMORTIZE * packing_capacity
        /\ \A j \in 1 .. Len(ppTriples[0]) : TripleProductHolds(j)

\* C2: with the production parameter set, whatever party 1 sent, the
\* triples that get_beaver_triples returns at the honest party 0 satisfy
\* tag_0 + tag_1 = alpha * (val_0 + val_1) modulo 2^(k+s) for a, b and c:
\* a changed cipher_d makes the truncer check or the batch check fail.
C2_TamperingAborts ==
    (ppSet = "PreprocK32S32" /\ ppPc[0] = "returned") => TriplesAuthentic

(***************************************************************************)
(* Linear operations on shares (interface.rs).  Each party applies the     *)
(* operation to its own share; PID is the party's const generic.           *)
(***************************************************************************)
MaxShareOps == 2

\* Share::from(cleartext): the value goes to party 0, the tag is KS::ZERO
ShareFrom(pid, cleartext) ==
    Share(IF pid = 0 THEN FromUnsigned(cleartext, KBits, KSBits) ELSE 0, 0)

neg_val_only(a) == Share(SubW(0, a.val, KSBits), a.tag)

\* -share: KS::ZERO - val, KS::ZERO - tag
ShareNeg(a) == Share(SubW(0, a.val, KSBits), SubW(0, a.tag, KSBits))

\* share - rhs = share + -rhs
ShareSub(a, b) == ShareAdd(a, ShareNeg(b))

\* share + K = share + Share::from(K)
ShareAddK(pid, a, c) == ShareAdd(a, ShareFrom(pid, c))

\* share - K = share + -Share::from(K)
ShareSubK(pid, a, c) == ShareAdd(a, ShareNeg(ShareFrom(pid, c)))

\* the two sum equations of a sharing sh of the value v under the key alpha
MacInvariant(sh, v) ==
    /\ Retrieve(sh[0].val + sh[1].val, KSBits) = Retrieve(v, KSBits)
    /\ Retrieve(sh[0].tag + sh[1].tag, KSBits)
         = Retrieve((mac_key[0] + mac_key[1]) * v, KSBits)

\* sharings of v: party 0 holds (v0, t0), party 1 the complement
SharingsOf(v, key) ==
    { [p \in PID |-> SharePair(v0, SubW(v, v0, KSBits), t0, 0, key)[p]] :
        v0 \in {1, Pow2(KSBits) - 1}, t0 \in {Pow2(KSBits - 1) + 1} }

ShareConsts == {1, Pow2(KBits) - 1}

\* one operation, applied by both parties to their shares of X (and Y)
ShareApply(op, x, y, v, w, c) ==
    /\ shOps < MaxShareOps
    /\ shX' = [p \in PID |->
         IF op = "add" THEN ShareAdd(x[p], y[p])
         ELSE IF op = "sub" THEN ShareSub(x[p], y[p])
         ELSE IF op = "neg" THEN ShareNeg(x[p])
         ELSE IF op = "mul" THEN ShareMulK(x[p], c)
         ELSE IF op = "add_const" THEN ShareAddK(p, x[p], c)
         ELSE ShareSubK(p, x[p], c)]
    /\ shx' = Retrieve(IF op = "add" THEN v + w
                       ELSE IF op = "sub" THEN v - w
                       ELSE IF op = "neg" THEN 0 - v
                       ELSE IF op = "mul" THEN c * v
                       ELSE IF op = "add_const" THEN v + c
                       ELSE v - c, KSBits)
    /\ shOp' = op
    /\ shPre' = (MacInvariant(x, v) /\ MacInvariant(y, w))
    /\ shOps' = shOps + 1
    /\ UNCHANGED <<nonShareVars, shY, shy>>

ShareOpAdd == ShareApply("add", shX, shY, shx, shy, 0)

ShareOpSub == ShareApply("sub", shX, shY, shx, shy, 0)

ShareOpNeg == ShareApply("neg", shX, shY, shx, shy, 0)

ShareOpMul == \E c \in ShareConsts : ShareApply("mul", shX, shY, shx, shy, c)

ShareOpAddConst == \E c \in ShareConsts : ShareApply("add_const", shX, shY, shx, shy, c)

ShareOpSubConst == \E c \in ShareConsts : ShareApply("sub_const", shX, shY, shx, shy, c)

InitShare ==
    /\ mac_key \in MacKeys
    /\ MacIdle
    /\ TruncIdle
    /\ DealerIdle
    /\ ZkIdle
    /\ PpIdle
    /\ ConnIdle
    /\ BufIdle
    /\ BgvIdle
    /\ TipIdle
    /\ FnIdle
    /\ shx \in {Pow2(KBits) + 1, Pow2(KSBits) - 1}
    /\ shy \in {Pow2(KBits) - 1, Pow2(KSBits - 1)}
    /\ shX \in SharingsOf(shx, mac_key)
    /\ shY \in SharingsOf(shy, mac_key)
    /\ shOp = "none"
    /\ shPre = FALSE
    /\ shOps = 0

NextShare ==
    \/ ShareOpAdd
    \/ ShareOpSub
    \/ ShareOpNeg
    \/ ShareOpMul
    \/ ShareOpAddConst
    \/ ShareOpSubConst

SpecShare == InitShare /\ [][NextShare]_vars

\* C11: when X and Y satisfy val_0 + val_1 = x and tag_0 + tag_1 = alpha * x
\* modulo 2^(k+s), the locally computed X + Y, X - Y, -X and X * c satisfy
\* both equations with the same alpha for x + y, x - y, -x and c * x.
C11_LinearOpsKeepMac ==
    (shOp \in {"add", "sub", "neg", "mul"} /\ shPre) => MacInvariant(shX, shx)

C11_Witness ==
    /\ shOp = "sub" /\ shPre
    /\ shOps = MaxShareOps
    /\ shX[0].tag # 0 /\ shX[1].tag # 0
    /\ shx # 0
    /\ mac_key[0] + mac_key[1] >= Pow2(SBits)

\* C12: when X satisfies the sum equations for x, X + c and X - c for a
\* public constant c, with c added to party 0's val only, satisfy them for
\* x + c and x - c with the same alpha.
C12_ConstOpsKeepMac ==
    (shOp \in {"add_const", "sub_const"} /\ shPre) => MacInvariant(shX, shx)

(***************************************************************************)
(* Connection and OneshotMap (connection.rs, oneshot_map.rs).  A uni       *)
(* stream is the record of the peer that opened it, the ID written on it   *)
(* and a copy number (0 for the stream open_bi opened).                    *)
(***************************************************************************)
MaxHandles == 2

MaxOpens == 4

NoStream == [from |-> 2, id |-> <<>>, h |-> 0, copy |-> 0]

\* Connection::new / the handle fork returns
Handle(id) ==
    [id |-> id, num_children |-> 0, num_streams |-> 0, pc |-> "idle", cur |-> <<>>]

\* open_bi: id = self.id.clone(); id.push(self.num_streams)
open_bi_id(h) == Append(h.id, h.num_streams)

fork_id_cloned(h) == h.id

\* fork: id = self.id.clone(); id.push(self.num_children)
fork_id(h) == Append(h.id, h.num_children)

\* fork: self.num_children += 1
fork_children(n) == n + 1

MapEntry(map, k) == CHOOSE e \in map : e.k = k

\* OneshotMap::send: hand v to the waiting Sender, park it as a Receiver in
\* a vacant entry, or fail on a parked Receiver
oneshot_send(map, k, v) ==
    IF \E e \in map : e.k = k
    THEN IF MapEntry(map, k).inner = "Sender"
         THEN [map |-> map \ {MapEntry(map, k)}, result |-> "Ok",
               to |-> MapEntry(map, k).h]
         ELSE [map |-> map, result |-> "SendBusy", to |-> 0]
    ELSE [map |-> map \cup {[k |-> k, inner |-> "Receiver", h |-> 0, v |-> v]},
          result |-> "Ok", to |-> 0]

recv_keeps_entry(map, k, h) ==
    IF \E e \in map : e.k = k
    THEN IF MapEntry(map, k).inner = "Sender"
         THEN [map |-> map, result |-> "RecvBusy", v |-> NoStream]
         ELSE [map |-> map, result |-> "Ready", v |-> MapEntry(map, k).v]
    ELSE [map |-> map \cup {[k |-> k, inner |-> "Sender", h |-> h, v |-> NoStream]},
          result |-> "Wait", v |-> NoStream]

\* OneshotMap::recv up to rx.await: take the parked Receiver, register a
\* Sender in a vacant entry, or fail on a registered Sender
oneshot_recv(map, k, h) ==
    IF \E e \in map : e.k = k
    THEN IF MapEntry(map, k).inner = "Sender"
         THEN [map |-> map, result |-> "RecvBusy", v |-> NoStream]
         ELSE [map |-> map \ {MapEntry(map, k)}, result |-> "Ready",
               v |-> MapEntry(map, k).v]
    ELSE [map |-> map \cup {[k |-> k, inner |-> "Sender", h |-> h, v |-> NoStream]},
          result |-> "Wait", v |-> NoStream]

\* the number of open_bi calls peer p has started
ConnOpens(p) ==
    Cardinality({i \in 1 .. Len(cnHandles[p]) : cnHandles[p][i].pc # "idle"})
        + Cardinality(cnOpened[p])

\* fork() on the i-th handle of peer p
ConnFork(p, i) ==
    /\ i \in 1 .. Len(cnHandles[p])
    /\ Len(cnHandles[p]) < MaxHandles
    /\ cnHandles[p][i].pc = "idle"
    /\ LET h == cnHandles[p][i]
       IN  cnHandles' = [cnHandles EXCEPT ![p] =
              Append([@ EXCEPT ![i].num_children = fork_children(h.num_children)],
                     Handle(fork_id(h)))]
    /\ UNCHANGED <<nonConnVars, cnMap, cnNet, cnOpened, cnSent, cnDups, cnCancels>>

\* the end of open_bi on handle i once rx.await has the stream recv:
\* self.num_streams += 1; Ok((send, recv))
open_bi_returns(p, i, id, recv, order) ==
    /\ cnOpened' = [cnOpened EXCEPT ![p] =
          @ \cup {[handle |-> i, k |-> cnHandles[p][i].num_streams, id |-> id,
                   recv |-> recv, order |-> order]}]
    /\ cnHandles' = [cnHandles EXCEPT ![p][i].pc = "idle",
                                      ![p][i].num_streams = @ + 1,
                                      ![p][i].cur = <<>>]

\* open_bi on the i-th handle of peer p: the uni stream is opened and
\* carries the ID, then recv_mapper.recv(id) returns the parked stream,
\* waits for it, or fails with RecvBusy and unwrap panics
ConnOpenBi(p, i) ==
    /\ i \in 1 .. Len(cnHandles[p])
    /\ cnHandles[p][i].pc = "idle"
    /\ ConnOpens(0) + ConnOpens(1) < MaxOpens
    /\ LET id == open_bi_id(cnHandles[p][i])
           r == oneshot_recv(cnMap[p], id, i)
       IN  /\ cnNet' = [cnNet EXCEPT ![Other(p)] =
                          @ \cup {[from |-> p, id |-> id, h |-> i, copy |-> 0]}]
           /\ cnMap' = [cnMap EXCEPT ![p] = r.map]
           /\ IF r.result = "Ready"
              THEN open_bi_returns(p, i, id, r.v, "stream_first")
              ELSE /\ cnHandles' = [cnHandles EXCEPT
                        ![p][i].pc = IF r.result = "Wait" THEN "waiting" ELSE "panicked",
                        ![p][i].cur = id]
                   /\ UNCHANGED cnOpened
    /\ UNCHANGED <<nonConnVars, cnSent, cnDups, cnCancels>>

\* OneshotMap::send, tx.send(v).ok().expect(..): the send to a registered
\* Sender fails, and expect panics, when the receiving end was dropped
tx_send(r, handles) ==
    IF r.result = "Ok" /\ r.to # 0 /\ handles[r.to].pc # "waiting" THEN "SendPanic"
    ELSE r.result

\* handle_incoming: the next uni stream, its ID, recv_mapper.send(id, recv);
\* Err(SendBusy) is logged as a duplicate ID.  A waiting open_bi wakes up
\* with the stream and returns.
ConnHandleIncoming(p) ==
    /\ \E s \in cnNet[p] :
        LET r == oneshot_send(cnMap[p], s.id, s)
            nth == Cardinality({x \in cnSent[p] : x.stream.id = s.id}) + 1
        IN  /\ cnNet' = [cnNet EXCEPT ![p] = @ \ {s}]
            /\ cnMap' = [cnMap EXCEPT ![p] = r.map]
            /\ cnSent' = [cnSent EXCEPT ![p] =
                            @ \cup {[stream |-> s, nth |-> nth,
                                     result |-> tx_send(r, cnHandles[p])]}]
            /\ IF r.to = 0 \/ tx_send(r, cnHandles[p]) # "Ok"
               THEN UNCHANGED <<cnHandles, cnOpened>>
               ELSE open_bi_returns(p, r.to, s.id, s, "recv_first")
    /\ UNCHANGED <<nonConnVars, cnDups, cnCancels>>

\* The IDs of the streams that have reached peer p or are on their way
ConnSeenIds(p) == {s.id : s \in cnNet[p]} \cup {x.stream.id : x \in cnSent[p]}

\* The caller of peer 0 drops the future of an open_bi that waits in
\* recv_mapper.recv(id): the receiving end is dropped, the entry of the ID
\* stays in the map and num_streams is not incremented.  A run has one
\* departure from the normal course, a dropped call or a duplicate stream.
ConnCancel(i) ==
    /\ cnCancels = 0
    /\ cnDups = 0
    /\ i \in 1 .. Len(cnHandles[0])
    /\ cnHandles[0][i].pc = "waiting"
    /\ cnHandles' = [cnHandles EXCEPT ![0][i].pc = "idle", ![0][i].cur = <<>>]
    /\ cnCancels' = cnCancels + 1
    /\ UNCHANGED <<nonConnVars, cnMap, cnNet, cnOpened, cnSent, cnDups>>

\* A peer 1 that departs from the protocol opens a second stream with an ID
\* it has used
ConnDuplicate ==
    /\ cnDups = 0
    /\ cnCancels = 0
    /\ \E id \in ConnSeenIds(0) :
        cnNet' = [cnNet EXCEPT ![0] = @ \cup {[from |-> 1, id |-> id, h |-> 0, copy |-> 1]}]
    /\ cnDups' = cnDups + 1
    /\ UNCHANGED <<nonConnVars, cnHandles, cnMap, cnOpened, cnSent, cnCancels>>

InitConn ==
    /\ mac_key = [p \in PID |-> 0]
    /\ MacIdle
    /\ TruncIdle
    /\ DealerIdle
    /\ ZkIdle
    /\ PpIdle
    /\ ShareIdle
    /\ BufIdle
    /\ BgvIdle
    /\ TipIdle
    /\ FnIdle
    /\ cnHandles = [p \in PID |-> <<Handle(<<>>)>>]
    /\ cnMap = [p \in PID |-> {}]
    /\ cnNet = [p \in PID |-> {}]
    /\ cnOpened = [p \in PID |-> {}]
    /\ cnSent = [p \in PID |-> {}]
    /\ cnDups = 0
    /\ cnCancels = 0

NextConn ==
    \/ \E p \in PID, i \in 1 .. MaxHandles : ConnFork(p, i)
    \/ \E p \in PID, i \in 1 .. MaxHandles : ConnOpenBi(p, i)
    \/ \E p \in PID : ConnHandleIncoming(p)
    \/ \E i \in 1 .. MaxHandles : ConnCancel(i)
    \/ ConnDuplicate

SpecConn == InitConn /\ [][NextConn]_vars

\* the streams open_bi calls of peer p have opened
ConnEmitted(p) ==
    {s \in cnNet[Other(p)] : s.copy = 0}
        \cup {x.stream : x \in {y \in cnSent[Other(p)] : y.stream.copy = 0}}

\* C13: the stream IDs used by open_bi on the handles that descend from one
\* Connection::new are pairwise distinct: two different handles never open
\* a stream with the same ID, and one handle never uses one ID for two
\* successfully opened streams.
C13_StreamIdsDistinct ==
    \A p \in PID :
        /\ \A s \in ConnEmitted(p) : \A t \in ConnEmitted(p) : s.h # t.h => s.id # t.id
        /\ \A a \in cnOpened[p] : \A b \in cnOpened[p] :
              (a.handle = b.handle /\ a.k # b.k) => a.id # b.id

C13_Witness ==
    \E a \in cnOpened[0] : \E b \in cnOpened[0] :
        /\ a.handle # b.handle
        /\ Len(a.id) # Len(b.id)
        /\ {a.recv, b.recv} \subseteq ConnEmitted(1)

\* C14: when both peers follow the protocol and no call is dropped, an open_bi that returns
\* returns the stream the peer opened with the identical ID, whether the
\* stream arrived before recv registered the ID or after, no map entry for
\* the ID remains, no open_bi panics, and a waiting open_bi stays registered.
C14_OpenBiPairs ==
    (cnDups = 0 /\ cnCancels = 0) =>
        \A p \in PID :
            /\ \A a \in cnOpened[p] :
                  /\ a.recv = [from |-> Other(p), id |-> a.id, h |-> a.recv.h, copy |-> 0]
                  /\ a.recv \in ConnEmitted(Other(p))
                  /\ ~ \E e \in cnMap[p] : e.k = a.id
            /\ \A i \in 1 .. Len(cnHandles[p]) :
                  /\ cnHandles[p][i].pc # "panicked"
                  /\ cnHandles[p][i].pc = "waiting" =>
                        [k |-> cnHandles[p][i].cur, inner |-> "Sender", h |-> i,
                         v |-> NoStream] \in cnMap[p]

C14_Witness ==
    /\ cnDups = 0
    /\ cnCancels = 0
    /\ \E a \in cnOpened[0] : a.order = "recv_first"
    /\ \E b \in cnOpened[0] \cup cnOpened[1] : b.order = "stream_first"
    /\ \A p \in PID : cnMap[p] = {}

\* C15: every inbound stream that carries an ID handle_incoming has
\* dispatched before fails with SendBusy and is logged as a duplicate ID,
\* while the first stream is parked as well as after it was handed over.
C15_DuplicateFails ==
    \A p \in PID : \A x \in cnSent[p] : x.nth > 1 => x.result = "SendBusy"

(***************************************************************************)
(* BufferedPreprocessor (buffered_preproc.rs): the owner calls             *)
(* get_beaver_triples, finish or drops the value; the spawned task runs    *)
(* produce.  A triple is the number of its production.                     *)
(***************************************************************************)
MaxBudget == 2

MaxBatch == 2

MaxN == 3

MaxGets == 2

acquire_ignores_close(permits, closed, n) ==
    IF permits >= n THEN "Ok" ELSE "Wait"

\* Semaphore::acquire_many(n): Err once the semaphore is closed, Ok when n
\* permits are there, and waiting otherwise
acquire_many(permits, closed, n) ==
    IF closed THEN "Err" ELSE IF permits >= n THEN "Ok" ELSE "Wait"

\* produce: acquire_many(BATCH_SIZE) is Ok, permit.forget(), and
\* inner.get_beaver_triples() is called
ProduceAcquire ==
    /\ bfPc = "acquire"
    /\ acquire_many(bfProducerSem, bfClosed, bfBatch) = "Ok"
    /\ bfProducerSem' = bfProducerSem - bfBatch
    /\ bfLate' = IF bfClosed THEN bfLate + 1 ELSE bfLate
    /\ bfPc' = "batch"
    /\ UNCHANGED <<nonBufVars, bfBudget, bfBatch, bfQueue, bfClosed, bfConsumerSem, bfProduced,
                   bfInnerFinish, bfSignal, bfCaller, bfN, bfOut, bfGets, bfWarned>>

\* produce: the inner batch is there, queue.lock().await.extend(triples)
ProduceBatch ==
    /\ bfPc = "batch"
    /\ bfQueue' = bfQueue \o [i \in 1 .. bfBatch |-> bfProduced + i]
    /\ bfProduced' = bfProduced + bfBatch
    /\ bfPc' = "extended"
    /\ UNCHANGED <<nonBufVars, bfBudget, bfBatch, bfProducerSem, bfClosed, bfConsumerSem,
                   bfLate, bfInnerFinish, bfSignal, bfCaller, bfN, bfOut, bfGets, bfWarned>>

\* produce: consumer_sem.add_permits(BATCH_SIZE), and the loop goes on
ProduceAddPermits ==
    /\ bfPc = "extended"
    /\ bfConsumerSem' = bfConsumerSem + bfBatch
    /\ bfPc' = "acquire"
    /\ UNCHANGED <<nonBufVars, bfBudget, bfBatch, bfQueue, bfProducerSem, bfClosed, bfProduced,
                   bfLate, bfInnerFinish, bfSignal, bfCaller, bfN, bfOut, bfGets, bfWarned>>

\* produce: acquire_many is Err, inner.finish() is called
ProduceClosed ==
    /\ bfPc = "acquire"
    /\ acquire_many(bfProducerSem, bfClosed, bfBatch) = "Err"
    /\ bfInnerFinish' = bfInnerFinish + 1
    /\ bfPc' = "finish"
    /\ UNCHANGED <<nonBufVars, bfBudget, bfBatch, bfQueue, bfProducerSem, bfClosed,
                   bfConsumerSem, bfProduced, bfLate, bfSignal, bfCaller, bfN, bfOut, bfGets,
                   bfWarned>>

\* let _ = terminated_tx.send(()): lost when the receiver was dropped
terminated_send(caller) == IF caller = "dropped" THEN "lost" ELSE "sent"

\* produce: inner.finish() has returned, terminated_tx.send(()), return
ProduceTerminate ==
    /\ bfPc = "finish"
    /\ bfSignal' = terminated_send(bfCaller)
    /\ bfPc' = "terminated"
    /\ UNCHANGED <<nonBufVars, bfBudget, bfBatch, bfQueue, bfProducerSem, bfClosed,
                   bfConsumerSem, bfProduced, bfLate, bfInnerFinish, bfCaller, bfN, bfOut,
                   bfGets, bfWarned>>

\* the owner calls get_beaver_triples(n)
GetCall ==
    /\ bfCaller = "idle"
    /\ bfGets < MaxGets
    /\ \E n \in 0 .. MaxN : bfN' = n
    /\ bfCaller' = "get"
    /\ bfGets' = bfGets + 1
    /\ bfOut' = <<>>
    /\ UNCHANGED <<nonBufVars, bfBudget, bfBatch, bfQueue, bfProducerSem, bfClosed,
                   bfConsumerSem, bfPc, bfProduced, bfLate, bfInnerFinish, bfSignal, bfWarned>>

\* get_beaver_triples: consumer_sem.acquire_many(n) is Ok, forget
GetAcquire ==
    /\ bfCaller = "get"
    /\ acquire_many(bfConsumerSem, FALSE, bfN) = "Ok"
    /\ bfConsumerSem' = bfConsumerSem - bfN
    /\ bfCaller' = "drain"
    /\ UNCHANGED <<nonBufVars, bfBudget, bfBatch, bfQueue, bfProducerSem, bfClosed, bfPc,
                   bfProduced, bfLate, bfInnerFinish, bfSignal, bfN, bfOut, bfGets, bfWarned>>

\* get_beaver_triples: queue.lock().await, queue.drain(..n), which panics
\* when the queue is shorter than n
GetDrain ==
    /\ bfCaller = "drain"
    /\ IF bfN > Len(bfQueue)
       THEN /\ bfCaller' = "panicked"
            /\ UNCHANGED <<bfQueue, bfOut>>
       ELSE /\ bfOut' = SubSeq(bfQueue, 1, bfN)
            /\ bfQueue' = SubSeq(bfQueue, bfN + 1, Len(bfQueue))
            /\ bfCaller' = "permits"
    /\ UNCHANGED <<nonBufVars, bfBudget, bfBatch, bfProducerSem, bfClosed, bfConsumerSem, bfPc,
                   bfProduced, bfLate, bfInnerFinish, bfSignal, bfN, bfGets, bfWarned>>

\* get_beaver_triples: producer_sem.add_permits(n), return vec
GetReturn ==
    /\ bfCaller = "permits"
    /\ bfProducerSem' = bfProducerSem + bfN
    /\ bfCaller' = "idle"
    /\ UNCHANGED <<nonBufVars, bfBudget, bfBatch, bfQueue, bfClosed, bfConsumerSem, bfPc,
                   bfProduced, bfLate, bfInnerFinish, bfSignal, bfN, bfOut, bfGets, bfWarned>>

\* finish up to terminated_rx.await: terminated_rx is taken and
\* producer_sem closed
FinishCall ==
    /\ bfCaller = "idle"
    /\ bfClosed' = TRUE
    /\ bfCaller' = "finish"
    /\ UNCHANGED <<nonBufVars, bfBudget, bfBatch, bfQueue, bfProducerSem, bfConsumerSem, bfPc,
                   bfProduced, bfLate, bfInnerFinish, bfSignal, bfN, bfOut, bfGets, bfWarned>>

\* finish: terminated_rx.await.unwrap() has the signal; self is dropped
\* with terminated_rx = None
FinishReturn ==
    /\ bfCaller = "finish"
    /\ bfSignal = "sent"
    /\ bfCaller' = "finished"
    /\ UNCHANGED <<nonBufVars, bfBudget, bfBatch, bfQueue, bfProducerSem, bfClosed,
                   bfConsumerSem, bfPc, bfProduced, bfLate, bfInnerFinish, bfSignal, bfN,
                   bfOut, bfGets, bfWarned>>

\* the owner drops the BufferedPreprocessor without finish: terminated_rx
\* is Some, so the warning is logged and producer_sem closed
BufDrop ==
    /\ bfCaller = "idle"
    /\ bfWarned' = TRUE
    /\ bfClosed' = TRUE
    /\ bfCaller' = "dropped"
    /\ UNCHANGED <<nonBufVars, bfBudget, bfBatch, bfQueue, bfProducerSem, bfConsumerSem, bfPc,
                   bfProduced, bfLate, bfInnerFinish, bfSignal, bfN, bfOut, bfGets>>

target_with_two_batches(budget, batch) == budget + 2 * batch

\* BufferedPreprocessor::new: the permits producer_sem starts with
target_triples(budget, batch) == budget + batch

\* BufferedPreprocessor::new(inner, budget)
InitBuf ==
    /\ mac_key = [p \in PID |-> 0]
    /\ MacIdle
    /\ TruncIdle
    /\ DealerIdle
    /\ ZkIdle
    /\ PpIdle
    /\ ShareIdle
    /\ ConnIdle
    /\ BgvIdle
    /\ TipIdle
    /\ FnIdle
    /\ bfBudget \in 0 .. MaxBudget
    /\ bfBatch \in 1 .. MaxBatch
    /\ bfQueue = <<>>
    /\ bfProducerSem = target_triples(bfBudget, bfBatch)
    /\ bfClosed = FALSE
    /\ bfConsumerSem = 0
    /\ bfPc = "acquire"
    /\ bfProduced = 0
    /\ bfLate = 0
    /\ bfInnerFinish = 0
    /\ bfSignal = "none"
    /\ bfCaller = "idle"
    /\ bfN = 0
    /\ bfOut = <<>>
    /\ bfGets = 0
    /\ bfWarned = FALSE

NextBuf ==
    \/ ProduceAcquire
    \/ ProduceBatch
    \/ ProduceAddPermits
    \/ ProduceClosed
    \/ ProduceTerminate
    \/ GetCall
    \/ GetAcquire
    \/ GetDrain
    \/ GetReturn
    \/ FinishCall
    \/ FinishReturn
    \/ BufDrop

\* the spawned task and a call in progress keep running; the inner
\* preprocessor completes every batch and its finish
SpecBuf ==
    /\ InitBuf
    /\ [][NextBuf]_vars
    /\ WF_vars(ProduceAcquire)
    /\ WF_vars(ProduceBatch)
    /\ WF_vars(ProduceAddPermits)
    /\ WF_vars(ProduceClosed)
    /\ WF_vars(ProduceTerminate)
    /\ WF_vars(GetAcquire)
    /\ WF_vars(GetDrain)
    /\ WF_vars(GetReturn)
    /\ WF_vars(FinishReturn)

C16_Safe ==
    /\ bfLate = 0
    /\ bfInnerFinish <= 1
    /\ bfInnerFinish = 1 => bfClosed
    /\ bfSignal # "none" => (bfInnerFinish = 1 /\ bfPc = "terminated")
    /\ bfPc = "terminated" => bfSignal # "none"
    /\ bfCaller = "finished" => (bfSignal = "sent" /\ ~bfWarned)
    /\ bfCaller = "finish" => bfSignal # "lost"
    /\ bfCaller # "panicked"
    /\ bfCaller = "dropped" => (bfClosed /\ bfWarned)

C17_GetReturns ==
    (bfCaller = "get") ~> (bfCaller = "idle" /\ Len(bfOut) = bfN)

(***************************************************************************)
(* BGV encryption with its noise (bgv/mod.rs) over the ciphertext ring of  *)
(* the ZKPoPK section.  A CrtPoly is written by its power-basis            *)
(* polynomial: the element-wise operations of CrtPolys are the ring        *)
(* operations PolyAdd, PolySub and PolyMul there.                          *)
(***************************************************************************)
MaxBgvOps == 5

\* Uint::bits_vartime
RECURSIVE bits_vartime(_)
bits_vartime(n) == IF n = 0 THEN 0 ELSE 1 + bits_vartime(n \div 2)

\* SecretKey::gen with the coefficients it draws
SecretKeyGen(e) == clone_from_i64s(e)

\* bgv::encrypt with the noise prepare draws: prepare, encrypt_into and
\* PreCiphertext::ciphertext
bgv_encrypt(pk, plaintext, e, e_1, v) == prepared_encrypt_into(prepare(plaintext, e, e_1, v), pk)

\* Cleartext::new: the plaintext's coefficients as ciphertext residues
cleartext_new(plaintext) == [i \in 1 .. Len(plaintext) |-> FromUnsigned(plaintext[i], ZkPlainBits, ZkQBits) % ZkQ]

\* AddAssign<&Self> for Ciphertext
ct_add_assign(self, rhs) ==
    PreCiphertext(PolyAdd(self.c_0, rhs.c_0, ZkQ), PolyAdd(self.c_1, rhs.c_1, ZkQ))

\* SubAssign<&Cleartext> for Ciphertext
ct_sub_assign_cleartext(self, rhs) == PreCiphertext(PolySub(self.c_0, rhs, ZkQ), self.c_1)

mul_assign_c_0_only(self, rhs) == PreCiphertext(PolyMul(self.c_0, rhs, ZkM, ZkQ), self.c_1)

\* MulAssign<&Cleartext> for Ciphertext
ct_mul_assign_cleartext(self, rhs) ==
    PreCiphertext(PolyMul(self.c_0, rhs, ZkM, ZkQ), PolyMul(self.c_1, rhs, ZkM, ZkQ))

decrypt_without_noise_max(s, ciphertext) ==
    LET temp == PolySub(PolyMul(ciphertext.c_1, s, ZkM, ZkQ), ciphertext.c_0, ZkQ)
    IN  [i \in 1 .. Len(temp) |-> FromUnsigned((0 - temp[i]) % ZkQ, ZkQBits, ZkPlainBits)]

\* bgv::decrypt_into: noise_max - (c_1 * s - c_0) in the ciphertext ring,
\* each coefficient then read as a plaintext residue
decrypt_into(s, ciphertext) ==
    LET noise_max == Pow2(bits_vartime(ZkQ) - 1)
        temp == PolySub(PolyMul(ciphertext.c_1, s, ZkM, ZkQ), ciphertext.c_0, ZkQ)
    IN  [i \in 1 .. Len(temp) |-> FromUnsigned((noise_max - temp[i]) % ZkQ, ZkQBits, ZkPlainBits)]

\* the ring operations of R_t
PlainAdd(p, q) == PolyAdd(p, q, Pow2(ZkPlainBits))

PlainSub(p, q) == PolySub(p, q, Pow2(ZkPlainBits))

PlainMul(p, q) == PolyMul(p, q, ZkM, Pow2(ZkPlainBits))

\* all coefficient vectors with entries in lo .. hi
BgvVecs(lo, hi) == [1 .. ZkDegree -> lo .. hi]

BgvTop == [i \in 1 .. ZkDegree |-> Pow2(ZkPlainBits) - 1]

\* plaintexts: zero, the largest one and mixed ones
BgvPlains ==
    {ZeroPoly(ZkDegree), BgvTop,
     [i \in 1 .. ZkDegree |-> IF i = 1 THEN 1 ELSE Pow2(ZkPlainBits) - 1],
     [i \in 1 .. ZkDegree |-> IF i = 1 THEN Pow2(ZkPlainBits - 1) ELSE 1]}

\* noise vectors of the largest magnitude
BgvEdge == {[i \in 1 .. ZkDegree |-> IF i = 1 THEN ZkMaxNoise ELSE 0 - ZkMaxNoise],
            [i \in 1 .. ZkDegree |-> 0 - ZkMaxNoise]}

\* outcomes of the sampler with one iteration
BgvTernary == {[i \in 1 .. ZkDegree |-> IF i = 1 THEN 1 ELSE 0 - 1],
               [i \in 1 .. ZkDegree |-> IF i = 1 THEN 0 ELSE 1],
               [i \in 1 .. ZkDegree |-> 0 - 1]}

BgvRandomA == {[i \in 1 .. ZkDegree |-> IF i = 1 THEN 5 ELSE ZkQ - 1],
               [i \in 1 .. ZkDegree |-> IF i = 1 THEN ZkQ \div 2 ELSE 17]}

\* encrypt(ctx, pk, plaintext)
BgvEncrypt ==
    /\ bgOp = "none"
    /\ \E m \in BgvPlains, e \in BgvVecs(0 - ZkMaxNoise, ZkMaxNoise), e_1 \in BgvEdge,
          v \in BgvTernary :
          /\ bgM' = m
          /\ bgCt' = bgv_encrypt(bgPk, m, e, e_1, v)
    /\ bgOp' = "encrypt"
    /\ UNCHANGED <<nonBgvVars, bgSk, bgPk, bgDepth, bgPrev, bgArg, bgOut>>

\* decrypt(ctx, sk, ciphertext)
BgvDecrypt ==
    /\ bgOp = "encrypt"
    /\ bgOut' = decrypt_into(SecretKeyGen(bgSk), bgCt)
    /\ bgOp' = "decrypt"
    /\ UNCHANGED <<nonBgvVars, bgSk, bgPk, bgM, bgCt, bgDepth, bgPrev, bgArg>>

\* the operand of an operation on a ciphertext that went through depth
\* operations
BgvOperands(depth) == IF depth = 0 THEN BgvPlains \ {ZeroPoly(ZkDegree)} ELSE {BgvTop}

\* ct += &rhs with a second ciphertext of encrypt under the same key
BgvAdd ==
    /\ bgOp = "encrypt"
    /\ bgDepth = 0
    /\ \E m \in BgvOperands(bgDepth), e \in BgvEdge :
          LET rhs == bgv_encrypt(bgPk, m, e, e, [i \in 1 .. ZkDegree |-> 1])
          IN  /\ bgArg' = decrypt_into(SecretKeyGen(bgSk), rhs)
              /\ bgCt' = ct_add_assign(bgCt, rhs)
    /\ bgPrev' = decrypt_into(SecretKeyGen(bgSk), bgCt)
    /\ bgOp' = "add"
    /\ bgDepth' = bgDepth + 1
    /\ UNCHANGED <<nonBgvVars, bgSk, bgPk, bgM, bgOut>>

\* ct -= &Cleartext::new(ctx, m)
BgvSubPlain ==
    /\ bgOp = "encrypt"
    /\ bgDepth = 0
    /\ \E m \in BgvOperands(bgDepth) :
          /\ bgArg' = m
          /\ bgCt' = ct_sub_assign_cleartext(bgCt, cleartext_new(m))
    /\ bgPrev' = decrypt_into(SecretKeyGen(bgSk), bgCt)
    /\ bgOp' = "sub_plain"
    /\ bgDepth' = bgDepth + 1
    /\ UNCHANGED <<nonBgvVars, bgSk, bgPk, bgM, bgOut>>

\* ct *= &Cleartext::new(ctx, m), also on a ciphertext that is a product
BgvMulPlain ==
    /\ bgOp \in {"encrypt", "mul_plain"}
    /\ bgDepth < MaxBgvOps
    /\ \E m \in BgvOperands(bgDepth) :
          /\ bgArg' = m
          /\ bgCt' = ct_mul_assign_cleartext(bgCt, cleartext_new(m))
    /\ bgPrev' = decrypt_into(SecretKeyGen(bgSk), bgCt)
    /\ bgOp' = "mul_plain"
    /\ bgDepth' = bgDepth + 1
    /\ UNCHANGED <<nonBgvVars, bgSk, bgPk, bgM, bgOut>>

\* SecretKey::gen and PublicKey::gen
InitBgv ==
    /\ mac_key = [p \in PID |-> 0]
    /\ MacIdle
    /\ TruncIdle
    /\ DealerIdle
    /\ ZkIdle
    /\ PpIdle
    /\ ShareIdle
    /\ ConnIdle
    /\ BufIdle
    /\ TipIdle
    /\ FnIdle
    /\ bgSk \in BgvTernary
    /\ \E a \in BgvRandomA : bgPk = PublicKeyGen(bgSk, a, [i \in 1 .. ZkDegree |-> ZkMaxNoise])
    /\ bgM = <<>>
    /\ bgCt = <<>>
    /\ bgOp = "none"
    /\ bgDepth = 0
    /\ bgPrev = <<>>
    /\ bgArg = <<>>
    /\ bgOut = <<>>

NextBgv ==
    \/ BgvEncrypt
    \/ BgvDecrypt
    \/ BgvAdd
    \/ BgvSubPlain
    \/ BgvMulPlain

SpecBgv == InitBgv /\ [][NextBgv]_vars

\* C18: decrypting what encrypt returned gives the plaintext back, for
\* every key of gen and every noise encrypt draws
C18_Roundtrip == bgOp = "decrypt" => bgOut = bgM

C18_Witness ==
    /\ bgOp = "decrypt"
    /\ bgOut = bgM
    /\ bgM = BgvTop
    /\ bgCt.c_0 # cleartext_new(bgM)
    /\ \E i \in 1 .. ZkDegree : bgSk[i] < 0

BgvResult == decrypt_into(SecretKeyGen(bgSk), bgCt)

BgvHomomorphic ==
    /\ bgOp = "add" => BgvResult = PlainAdd(bgPrev, bgArg)
    /\ bgOp = "sub_plain" => BgvResult = PlainSub(bgPrev, bgArg)
    /\ bgOp = "mul_plain" => BgvResult = PlainMul(bgPrev, bgArg)

\* C19 as stated: decrypt commutes with the sum of two ciphertexts, with
\* subtracting a cleartext and with multiplying by a cleartext, for every
\* ciphertext under the key
C19_Homomorphic == BgvHomomorphic

\* C19 amended: decrypt commutes with these operations when their
\* ciphertext operands are what encrypt returned
C19_HomomorphicOnFresh == bgDepth = 1 => BgvHomomorphic

C19_Witness ==
    /\ bgOp = "mul_plain"
    /\ bgDepth = 1
    /\ bgPrev = bgM
    /\ bgM = BgvTop
    /\ bgArg = BgvTop
    /\ BgvResult = PlainMul(bgM, bgArg)
    /\ BgvResult # ZeroPoly(ZkDegree)

(***************************************************************************)
(* Tweaked interpolation packing with several entries per slot             *)
(* (bgv/tweaked_interpolation_packing.rs) and the slot-wise product of     *)
(* CrtPolys (bgv/poly/crt.rs).  A parameter set is a record of its         *)
(* FACTOR_COUNT, FACTOR_DEGREE, DELTA and the bits of its residue; the     *)
(* unpacked entries are KSS residues.                                      *)
(***************************************************************************)
tip_capacity_per_slot(P) == (P.FACTOR_DEGREE + 1) \div 2

tip_capacity(P) == P.FACTOR_COUNT * tip_capacity_per_slot(P)

\* i64::trailing_zeros of a nonzero value
RECURSIVE trailing_zeros(_)
trailing_zeros(x) == IF x % 2 # 0 THEN 0 ELSE 1 + trailing_zeros(x \div 2)

inv_mod2k_step(x, y, k) == IF (x * y) % Pow2(k) = 1 THEN y ELSE y + Pow2(k - 1)

\* invert of a native residue: inv_mod2k_vartime(BITS) of an odd value
RECURSIVE inv_mod2k_vartime(_, _)
inv_mod2k_vartime(x, k) ==
    IF k <= 1 THEN 1 ELSE inv_mod2k_step(x, inv_mod2k_vartime(x, k - 1), k)

\* pack: lp *= (X - i)
lagrange_times(lp, i, w) ==
    [k \in 1 .. Len(lp) |->
        IF k = 1 THEN SubW(0, MulW(i, lp[1], w), w)
        ELSE SubW(lp[k - 1], MulW(i, lp[k], w), w)]

lagrange_step(acc, j, i, w) ==
    LET product == acc.denom * (j - i)
    IN  [lp |-> lagrange_times(acc.lp, i, w),
         trailing_zeros |-> acc.trailing_zeros + trailing_zeros(product),
         denom |-> product \div Pow2(trailing_zeros(product))]

\* pack: the iterations i, i + 1, .. of the loop that builds lp, the
\* trailing zeros and the odd part of the denominator for index j
RECURSIVE lagrange_from(_, _, _, _)
lagrange_from(P, j, i, acc) ==
    IF i >= tip_capacity_per_slot(P) THEN acc
    ELSE lagrange_from(P, j, i + 1, IF i = j THEN acc ELSE lagrange_step(acc, j, i, P.BITS))

lagrange_scaled(P, acc) ==
    LET factor == residue_shl_vartime(inv_mod2k_vartime(Retrieve(acc.denom, P.BITS), P.BITS),
                                      P.DELTA - acc.trailing_zeros, P.BITS)
    IN  [k \in 1 .. Len(acc.lp) |-> MulW(acc.lp[k], factor, P.BITS)]

\* pack: lagrange_polys[j], the polynomial that is 2^DELTA at j and 0 at
\* the other indices below the capacity per slot
lagrange_poly(P, j) ==
    lagrange_scaled(P, lagrange_from(P, j, 0,
        [lp |-> [k \in 1 .. P.FACTOR_DEGREE |-> IF k = 1 THEN 1 ELSE 0],
         trailing_zeros |-> 0, denom |-> 1]))

\* pack: assert!(trailing_zeros <= P::DELTA) for every index
pack_asserts(P) ==
    \A j \in 0 .. tip_capacity_per_slot(P) - 1 :
        lagrange_from(P, j, 0, [lp |-> [k \in 1 .. P.FACTOR_DEGREE |-> 0],
                                trailing_zeros |-> 0, denom |-> 1]).trailing_zeros <= P.DELTA

\* pack of entries of width from
tip_pack(P, unpacked, from) ==
    LET cap == tip_capacity_per_slot(P)
        lps == [j \in 1 .. cap |-> lagrange_poly(P, j - 1)]
    IN  [idx \in 1 .. P.FACTOR_COUNT * P.FACTOR_DEGREE |->
            LET slot == (idx - 1) \div P.FACTOR_DEGREE
                i == (idx - 1) % P.FACTOR_DEGREE
            IN  Retrieve(SumSeq([j \in 1 .. cap |->
                                    IF slot * cap + j <= Len(unpacked)
                                    THEN MulW(FromUnsigned(unpacked[slot * cap + j], from, P.BITS),
                                              lps[j][i + 1], P.BITS)
                                    ELSE 0], cap), P.BITS)]

\* the factor of a slot, FACTOR_DEGREE + 1 coefficients of a monic polynomial
TipFactor(P) == [i \in 1 .. P.FACTOR_DEGREE + 1 |-> IF i \in {1, 2, P.FACTOR_DEGREE + 1} THEN 1 ELSE 0]

\* CrtPoly *= (rhs, ctx), one slot: the iterations j, j - 1, .., 0 with temp
\* as the iteration before left it
RECURSIVE slot_mul_from(_, _, _, _, _, _)
slot_mul_from(lhs, rhs, factor, j, temp, w) ==
    LET d == Len(lhs)
        added == [i \in 1 .. d |->
                     IF j = d - 1 THEN MulW(lhs[i], rhs[j + 1], w)
                     ELSE AddW(temp[i], MulW(lhs[i], rhs[j + 1], w), w)]
    IN  IF j = 0 THEN added
        ELSE slot_mul_from(lhs, rhs, factor, j - 1,
                 [i \in 1 .. d |->
                     SubW(IF i # 1 THEN added[i - 1] ELSE 0, MulW(added[d], factor[i], w), w)], w)

\* CrtPoly *= (rhs, ctx) with the factors context
crt_mul_assign(P, self, rhs) ==
    LET d == P.FACTOR_DEGREE
        slots == [s \in 1 .. P.FACTOR_COUNT |->
                     slot_mul_from(SubSeq(self, (s - 1) * d + 1, s * d),
                                   SubSeq(rhs, (s - 1) * d + 1, s * d),
                                   TipFactor(P), d - 1, ZeroPoly(d), P.BITS)]
    IN  [idx \in 1 .. P.FACTOR_COUNT * d |-> slots[((idx - 1) \div d) + 1][((idx - 1) % d) + 1]]

tip_unpack_shr_delta(P, crt, to) ==
    LET cap == tip_capacity_per_slot(P)
    IN  [n \in 1 .. tip_capacity(P) |->
            LET slot == (n - 1) \div cap
                b == (n - 1) % cap
                evaluated == Retrieve(SumSeq([i \in 1 .. P.FACTOR_DEGREE |->
                                 MulW(crt[slot * P.FACTOR_DEGREE + i],
                                      Retrieve(IntPow(b, i - 1), P.BITS), P.BITS)],
                                 P.FACTOR_DEGREE), P.BITS)
            IN  FromUnsigned(residue_shr_vartime(evaluated, P.DELTA, P.BITS), P.BITS, to)]

\* unpack into entries of width to: each slot's polynomial evaluated at
\* 0, 1, .., shifted right by 2 * DELTA
tip_unpack(P, crt, to) ==
    LET cap == tip_capacity_per_slot(P)
    IN  [n \in 1 .. tip_capacity(P) |->
            LET slot == (n - 1) \div cap
                b == (n - 1) % cap
                evaluated == Retrieve(SumSeq([i \in 1 .. P.FACTOR_DEGREE |->
                                 MulW(crt[slot * P.FACTOR_DEGREE + i],
                                      Retrieve(IntPow(b, i - 1), P.BITS), P.BITS)],
                                 P.FACTOR_DEGREE), P.BITS)
            IN  FromUnsigned(residue_shr_vartime(evaluated, 2 * P.DELTA, P.BITS), P.BITS, to)]

\* parameter sets: the residue has k + 2s + 2 DELTA bits or more, but for
\* the last, which has k + 2s + DELTA
TipSets ==
    {[FACTOR_COUNT |-> 1, FACTOR_DEGREE |-> 5, DELTA |-> 1, BITS |-> KSSBits + 2],
     [FACTOR_COUNT |-> 2, FACTOR_DEGREE |-> 3, DELTA |-> 2, BITS |-> KSSBits + 4],
     [FACTOR_COUNT |-> 1, FACTOR_DEGREE |-> 4, DELTA |-> 1, BITS |-> KSSBits + 3],
     [FACTOR_COUNT |-> 1, FACTOR_DEGREE |-> 5, DELTA |-> 1, BITS |-> KSSBits + 1]}

TipVals == {1, Pow2(KSSBits - 1) + 2, Pow2(KSSBits) - 1}

TipWVals == {3, Pow2(KSSBits) - 1}

\* pack::<P>(&a) and pack::<P>(&b)
TipPack ==
    /\ tpPc = "start"
    /\ tpPacked' = <<tip_pack(tpSet, tpV, KSSBits), tip_pack(tpSet, tpW, KSSBits)>>
    /\ tpPc' = "packed"
    /\ UNCHANGED <<nonTipVars, tpSet, tpV, tpW, tpProd, tpOut>>

\* packed_prod *= (&packed_b, &ctx)
TipMul ==
    /\ tpPc = "packed"
    /\ tpProd' = crt_mul_assign(tpSet, tpPacked[1], tpPacked[2])
    /\ tpPc' = "multiplied"
    /\ UNCHANGED <<nonTipVars, tpSet, tpV, tpW, tpPacked, tpOut>>

\* unpack(&packed_prod)
TipUnpack ==
    /\ tpPc = "multiplied"
    /\ tpOut' = tip_unpack(tpSet, tpProd, KSSBits)
    /\ tpPc' = "unpacked"
    /\ UNCHANGED <<nonTipVars, tpSet, tpV, tpW, tpPacked, tpProd>>

InitTip ==
    /\ mac_key = [p \in PID |-> 0]
    /\ MacIdle
    /\ TruncIdle
    /\ DealerIdle
    /\ ZkIdle
    /\ PpIdle
    /\ ShareIdle
    /\ ConnIdle
    /\ BufIdle
    /\ BgvIdle
    /\ FnIdle
    /\ tpSet \in {P \in TipSets : pack_asserts(P)}
    /\ \E n \in 0 .. tip_capacity(tpSet) :
          /\ tpV \in [1 .. n -> TipVals]
          /\ tpW \in [1 .. n -> TipWVals]
    /\ tpPc = "start"
    /\ tpPacked = <<>>
    /\ tpProd = <<>>
    /\ tpOut = <<>>

NextTip ==
    \/ TipPack
    \/ TipMul
    \/ TipUnpack

SpecTip == InitTip /\ [][NextTip]_vars

\* the componentwise product in Z/2^(k+2s), zero beyond the vectors
TipProduct ==
    [n \in 1 .. tip_capacity(tpSet) |->
        IF n <= Len(tpV) THEN MulW(tpV[n], tpW[n], KSSBits) ELSE 0]

BufInProduction == IF bfPc = "batch" THEN bfBatch ELSE 0

\* C30: the queue holds at least as many triples as consumer_sem has
\* permits, and n more while a call that acquired n permits has not drained,
\* so drain never reaches past the end; the triples queued plus those of a
\* batch in production never exceed budget + BATCH_SIZE
C30_BufferBounds ==
    /\ Len(bfQueue) >= bfConsumerSem + (IF bfCaller = "drain" THEN bfN ELSE 0)
    /\ bfCaller # "panicked"
    /\ Len(bfQueue) + BufInProduction <= bfBudget + bfBatch

C30_Witness ==
    /\ bfCaller = "drain"
    /\ bfN > 1
    /\ bfPc = "batch"
    /\ Len(bfQueue) + BufInProduction = bfBudget + bfBatch

\* C28: no open_bi finds its ID registered by an earlier call, so recv never
\* returns RecvBusy and unwrap never panics, also after a call on the handle
\* was dropped while it waited
C28_OpenBiNeverBusy ==
    \A p \in PID : \A i \in 1 .. Len(cnHandles[p]) : cnHandles[p][i].pc # "panicked"

(***************************************************************************)
(* Pure functions of the bgv modules, applied to arguments drawn at the    *)
(* start                                                                   *)
(***************************************************************************)

\* the values around a bound b and its negative
CbEdges(b) == {-b - 1, -b, 0, b - 1, b, b + 1}

\* the bound B of check_bounds
CbBound(inv_fail_prob, num_ciphertexts, n_proofs) ==
    3 * (ZkM - 1) * (ZkM - 1) * num_ciphertexts * n_proofs * inv_fail_prob

\* a polynomial that is x at coefficient i and 0 elsewhere
CbProbe(i, x) == [j \in 1 .. ZkDegree |-> IF j = i THEN x ELSE 0]

\* the arguments of check_bounds: one coefficient of every part lies around
\* the bound of that part
CbInput(i, low, f, noise, e_1, v) ==
    [prepared_plaintext |->
        PreparedPlaintext(
            CbProbe(i, (low + ext_shl(ext_from_i64(noise), ZkPlainBits)) % Pow2(ZkExtBits)),
            CbProbe(i, e_1), CbProbe(i, v)),
     inv_fail_prob |-> f, num_ciphertexts |-> 1, num_proofs |-> 1]

CbInputs ==
    UNION { { CbInput(t[1], t[2], f, u[1], u[2], u[3]) :
                u \in CbEdges(21 * CbBound(f, 1, 1)) \X CbEdges(20 * CbBound(f, 1, 1))
                          \X CbEdges(CbBound(f, 1, 1)),
                t \in (1 .. ZkDegree) \X {0, Pow2(ZkPlainBits) - 1} } :
            f \in {1, 2} }

\* check_bounds applied to the drawn arguments
FnCheckBounds ==
    /\ fnOp = "check_bounds"
    /\ ~fnDone
    /\ fnOut' = check_bounds(fnIn.prepared_plaintext, fnIn.inv_fail_prob,
                             fnIn.num_ciphertexts, fnIn.num_proofs)
    /\ fnDone' = TRUE
    /\ UNCHANGED <<nonFnVars, fnOp, fnIn>>

\* the cyclotomic index and the coefficient modulus of the polynomials that
\* are slided
SlM == 5

SlModulus == 4

SlVecs(S) == [1 .. SlM - 1 -> S]

\* PowerPoly::add_assign_slided with the subtraction also at power = length
add_assign_slided_unguarded(self, rhs, length, M, m) ==
    IF length = 0 THEN self ELSE SlideLoopUnguarded(self, rhs, length, M, m, 1, 0)

\* PowerPoly::add_assign_slided
add_assign_slided(self, rhs, length, M, m) ==
    IF length = 0 THEN self ELSE SlideLoop(self, rhs, length, M, m, 1, 0)

\* add_assign_rotated(rhs, i) for i = from, ..., length - 1, in this order
RECURSIVE RotatedFrom(_, _, _, _, _, _)
RotatedFrom(self, rhs, from, length, M, m) ==
    IF from >= length THEN self
    ELSE RotatedFrom(add_assign_rotated(self, rhs, from, M, m), rhs, from + 1, length, M, m)

SlInputs ==
    { [self |-> a, rhs |-> b, length |-> n] :
        a \in SlVecs({0, SlModulus - 1}), b \in SlVecs({0, 1, SlModulus - 1}),
        n \in 0 .. SlM - 1 }

\* add_assign_slided applied to the drawn arguments
FnSlided ==
    /\ fnOp = "add_assign_slided"
    /\ ~fnDone
    /\ fnOut' = add_assign_slided(fnIn.self, fnIn.rhs, fnIn.length, SlM, SlModulus)
    /\ fnDone' = TRUE
    /\ UNCHANGED <<nonFnVars, fnOp, fnIn>>

\* the prime modulus of the residues that are transformed
FftModulus == 17

\* the largest transform has 2^MaxFftShift entries
MaxFftShift == 3

\* one pass of fast_fourier_transform, the body of `for shift`: entry
\* size * (2 i + b) + j of output is lhs + rhs for b = 0 and lhs - rhs for
\* b = 1; index k of a vector is k + 1 here
fft_pass_forward_roots(root_powers, inverse, input, sh, q) ==
    LET n == Len(input)
        size == Pow2(sh)
        count == n \div Pow2(sh + 1)
    IN  [k1 \in 1 .. n |->
            LET k == k1 - 1
                j == k % size
                i == (k \div size) \div 2
                lhs == input[size * i + j + 1]
                raw == input[size * i + j + (n \div 2) + 1]
                rhs == IF j # 0 THEN (raw * root_powers[((count * j) % n) + 1]) % q ELSE raw
            IN  IF (k \div size) % 2 = 0 THEN (lhs + rhs) % q ELSE (lhs - rhs) % q]
        \o <<>>

fft_pass(root_powers, inverse, input, sh, q) ==
    LET n == Len(input)
        size == Pow2(sh)
        count == n \div Pow2(sh + 1)
    IN  [k1 \in 1 .. n |->
            LET k == k1 - 1
                j == k % size
                i == (k \div size) \div 2
                lhs == input[size * i + j + 1]
                raw == input[size * i + j + (n \div 2) + 1]
                root_power_index == IF inverse THEN (count * (n - j)) % n
                                    ELSE (count * j) % n
                rhs == IF j # 0 THEN (raw * root_powers[root_power_index + 1]) % q ELSE raw
            IN  IF (k \div size) % 2 = 0 THEN (lhs + rhs) % q ELSE (lhs - rhs) % q]
        \o <<>>

\* the passes sh, sh + 1, ..., trailing_zeros(n) - 1, input and output
\* swapped after each
RECURSIVE fft_from(_, _, _, _, _)
fft_from(root_powers, inverse, input, sh, q) ==
    IF Pow2(sh) >= Len(input) THEN input
    ELSE fft_from(root_powers, inverse, fft_pass(root_powers, inverse, input, sh, q),
                  sh + 1, q)

\* fast_fourier_transform over the residues modulo q
fast_fourier_transform(root_powers, inverse, input, q) ==
    fft_from(root_powers, inverse, input, 0, q)

\* root^e modulo q, one `current *= dft_root` after another
RECURSIVE FftPow(_, _, _)
FftPow(root, e, q) == IF e = 0 THEN 1 % q ELSE (FftPow(root, e - 1, q) * root) % q

\* the powers root^0, ..., root^(n-1)
FftRootPowers(root, n, q) == [k \in 1 .. n |-> FftPow(root, k - 1, q)]

\* the primitive n-th roots of unity modulo q, n a power of two
FftPrimitiveRoots(n, q) ==
    { r \in 1 .. q - 1 : FftPow(r, n, q) = 1 /\ FftPow(r, n \div 2, q) # 1 }

\* Residue::invert
FftInverse(x, q) == CHOOSE y \in 0 .. q - 1 : (x * y) % q = 1

\* vectors with at most two entries that are not zero, and one without zeros
FftVectors(n, q) ==
    { [k \in 1 .. n |-> IF k = i THEN a ELSE IF k = j THEN b ELSE 0] :
        i \in 1 .. n, j \in 1 .. n, a \in {0, 1, q - 1}, b \in {0, 2} }
      \cup { [k \in 1 .. n |-> k % q] }

FftInputs ==
    UNION { { [root_powers |-> FftRootPowers(r, Pow2(sh), FftModulus), input |-> v] :
                r \in FftPrimitiveRoots(Pow2(sh), FftModulus),
                v \in FftVectors(Pow2(sh), FftModulus) } :
            sh \in 1 .. MaxFftShift }

\* dft_roundtrip: the transform, the inverse transform, every entry times
\* dft_size_inverse
FnFourier ==
    /\ fnOp = "fast_fourier_transform"
    /\ ~fnDone
    /\ LET n == Len(fnIn.input)
           output == fast_fourier_transform(fnIn.root_powers, FALSE, fnIn.input, FftModulus)
           back == fast_fourier_transform(fnIn.root_powers, TRUE, output, FftModulus)
           dft_size_inverse == FftInverse(n % FftModulus, FftModulus)
       IN  fnOut' = [output |-> output,
                     input_roundtrip |->
                        [k \in 1 .. n |-> (back[k] * dft_size_inverse) % FftModulus]]
    /\ fnDone' = TRUE
    /\ UNCHANGED <<nonFnVars, fnOp, fnIn>>

\* ---- CrtContext, CrtPoly <-> PowerPoly ----

\* parameter bundles of the shape of bgv/params, small enough to enumerate:
\* M prime, CYCLOTOMIC_DEGREE = M - 1, FACTOR_COUNT * FACTOR_DEGREE = M - 1;
\* the Fourier bundles have a prime modulus with M and dft_size dividing
\* modulus - 1 and GENERATOR a generator of its multiplicative group; the
\* Factors bundle has a power of two as modulus and FACTOR_DEGREE the order
\* of 2 modulo M
CrtPolyParametersOf(name) ==
    CASE name = "Phi3ModP13" ->
            [M |-> 3, CYCLOTOMIC_DEGREE |-> 2, modulus |-> 13,
             FACTOR_COUNT |-> 2, FACTOR_DEGREE |-> 1,
             SLOT_GENERATOR |-> 2, SLOT_GENERATOR_INVERSE |-> 2,
             CRT_STRATEGY |-> "Fourier", GENERATOR |-> 2]
      [] name = "Phi5ModP41" ->
            [M |-> 5, CYCLOTOMIC_DEGREE |-> 4, modulus |-> 41,
             FACTOR_COUNT |-> 4, FACTOR_DEGREE |-> 1,
             SLOT_GENERATOR |-> 2, SLOT_GENERATOR_INVERSE |-> 3,
             CRT_STRATEGY |-> "Fourier", GENERATOR |-> 6]
      [] name = "Phi7ModT2" ->
            [M |-> 7, CYCLOTOMIC_DEGREE |-> 6, modulus |-> 4,
             FACTOR_COUNT |-> 2, FACTOR_DEGREE |-> 3,
             SLOT_GENERATOR |-> 3, SLOT_GENERATOR_INVERSE |-> 5,
             CRT_STRATEGY |-> "Factors", GENERATOR |-> 0]

CrtPolyParameterNames == {"Phi3ModP13", "Phi5ModP41", "Phi7ModT2"}

\* usize::next_power_of_two
RECURSIVE next_power_of_two_from(_, _)
next_power_of_two_from(x, p) == IF p >= x THEN p ELSE next_power_of_two_from(x, 2 * p)

next_power_of_two(x) == next_power_of_two_from(x, 1)

\* root after `steps` times root = root.pow_usize_vartime(SLOT_GENERATOR)
RECURSIVE pow_slot_generator(_, _, _, _)
pow_slot_generator(root, g, steps, q) ==
    IF steps = 0 THEN root ELSE FftPow(pow_slot_generator(root, g, steps - 1, q), g, q)

\* CrtContext::gen_fourier
gen_fourier(P) ==
    LET q == P.modulus
        m_inverse == FftInverse(P.M % q, q)
        group_order == q - 1
        mth_root == FftPow(P.GENERATOR, group_order \div P.M, q)
        mth_root_inverse == FftInverse(mth_root, q)
        dft_size == next_power_of_two(2 * P.CYCLOTOMIC_DEGREE - 1)
        dft_size_inverse == FftInverse(dft_size % q, q)
        dft_root == FftPow(P.GENERATOR, group_order \div Pow2(trailing_zeros(dft_size)), q)
        dft_root_powers == FftRootPowers(dft_root, dft_size, q) \o <<>>
        common_factor == (m_inverse * dft_size_inverse) % q
        from_crt == [i \in 1 .. dft_size |->
                       IF i <= P.CYCLOTOMIC_DEGREE
                       THEN ((pow_slot_generator(mth_root_inverse, P.SLOT_GENERATOR,
                                                 P.CYCLOTOMIC_DEGREE - i + 1, q) + q - 1)
                              * common_factor) % q
                       ELSE 0]
        from_power == [i \in 1 .. dft_size |->
                       IF i <= P.CYCLOTOMIC_DEGREE
                       THEN (pow_slot_generator(mth_root, P.SLOT_GENERATOR, i - 1, q)
                              * dft_size_inverse) % q
                       ELSE 0]
    IN  [strategy |-> "Fourier",
         factors |-> <<>>,
         basis_coefficients |-> <<>>,
         m_inverse |-> m_inverse,
         mth_root |-> mth_root,
         mth_root_inverse |-> mth_root_inverse,
         dft_size |-> dft_size,
         dft_size_inverse |-> dft_size_inverse,
         kernel_from_crt |-> fast_fourier_transform(dft_root_powers, FALSE, from_crt, q),
         kernel_from_power |-> fast_fourier_transform(dft_root_powers, FALSE, from_power, q),
         dft_root_powers |-> dft_root_powers]

\* the exponent the loops of the Fourier conversions reach after i steps of
\* exp *= SLOT_GENERATOR_INVERSE; exp %= M, starting from 1
RECURSIVE slot_exp(_, _)
slot_exp(P, i) == IF i = 0 THEN 1 ELSE (slot_exp(P, i - 1) * P.SLOT_GENERATOR_INVERSE) % P.M

\* the index of PowerPoly::coefficients that holds exponent exp: the
\* coefficient of X^CYCLOTOMIC_DEGREE is kept at index 0
power_index(P, exp) == IF exp = P.CYCLOTOMIC_DEGREE THEN 0 ELSE exp

\* padded_fft *= kernel entrywise, then the inverse transform
fourier_convolve(ctx, kernel, padded, q) ==
    LET padded_fft == fast_fourier_transform(ctx.dft_root_powers, FALSE, padded, q)
        product == [i \in 1 .. ctx.dft_size |-> (padded_fft[i] * kernel[i]) % q]
    IN  fast_fourier_transform(ctx.dft_root_powers, TRUE, product, q)

\* a conversion that forgets the wrap-around tail of the convolution
clone_from_power_via_fourier_no_tail(P, ctx, power) ==
    LET q == P.modulus
        n == P.CYCLOTOMIC_DEGREE
        padded == [i \in 1 .. ctx.dft_size |->
                     IF i <= n THEN power[power_index(P, slot_exp(P, i - 1)) + 1] ELSE 0]
        out == fourier_convolve(ctx, ctx.kernel_from_power, padded, q)
    IN  [i \in 1 .. n |-> out[i]]

\* CrtPoly::clone_from_power_via_fourier
clone_from_power_via_fourier(P, ctx, power) ==
    LET q == P.modulus
        n == P.CYCLOTOMIC_DEGREE
        padded == [i \in 1 .. ctx.dft_size |->
                     IF i <= n THEN power[power_index(P, slot_exp(P, i - 1)) + 1] ELSE 0]
        out == fourier_convolve(ctx, ctx.kernel_from_power, padded, q)
    IN  [i \in 1 .. n |-> IF i <= n - 1 THEN (out[i] + out[n + i]) % q ELSE out[i]]

\* PowerPoly::clone_from_crt_via_fourier
clone_from_crt_via_fourier(P, ctx, crt) ==
    LET q == P.modulus
        n == P.CYCLOTOMIC_DEGREE
        padded == [i \in 1 .. ctx.dft_size |-> IF i <= n THEN crt[i] ELSE 0]
        out == fourier_convolve(ctx, ctx.kernel_from_crt, padded, q)
        step(c) == CHOOSE i \in 0 .. n - 1 : power_index(P, slot_exp(P, i)) = c
    IN  [c \in 1 .. n |->
           LET i == step(c - 1)
           IN  IF i < n - 1 THEN (out[i + 1] + out[n + i + 1]) % q ELSE out[i + 1]]

\* the inner loops of clone_from_power_via_factors for one factor: from
\* leading_exp down to FACTOR_DEGREE take leading * factor off the lower
\* FACTOR_DEGREE places
RECURSIVE reduce_by_factor(_, _, _, _, _)
reduce_by_factor(P, factors, factor_index, reduced, leading_exp) ==
    IF leading_exp < P.FACTOR_DEGREE THEN reduced
    ELSE LET d == P.FACTOR_DEGREE
             leading == reduced[leading_exp + 1]
             next == [k \in 1 .. P.M |->
                        IF k - 1 >= leading_exp - d /\ k - 1 < leading_exp
                        THEN (reduced[k] - leading
                                * factors[factor_index * (d + 1) + (k - 1 - (leading_exp - d)) + 1])
                              % P.modulus
                        ELSE reduced[k]] \o <<>>
         IN  reduce_by_factor(P, factors, factor_index, next, leading_exp - 1)

\* CrtPoly::clone_from_power_via_factors
clone_from_power_via_factors(P, ctx, power) ==
    LET d == P.FACTOR_DEGREE
        start == [k \in 1 .. P.M |->
                    IF k = 1 THEN 0 ELSE IF k = P.M THEN power[1] ELSE power[k]] \o <<>>
        reduced(factor_index) == reduce_by_factor(P, ctx.factors, factor_index, start, P.M - 1)
    IN  [i \in 1 .. P.CYCLOTOMIC_DEGREE |-> reduced((i - 1) \div d)[((i - 1) % d) + 1]]

\* basis_exp after j doublings
RECURSIVE doubled(_, _, _)
doubled(basis_exp, j, M) == IF j = 0 THEN basis_exp % M ELSE (2 * doubled(basis_exp, j - 1, M)) % M

\* basis_exp_repr of basis_index
RECURSIVE basis_exp_repr(_, _)
basis_exp_repr(P, basis_index) ==
    IF basis_index = 0 THEN 1 ELSE (basis_exp_repr(P, basis_index - 1) * P.SLOT_GENERATOR) % P.M

\* the sum of the slots the second loop nest of clone_from_crt_via_factors
\* adds at exponent exp, over its steps k .. FACTOR_COUNT * FACTOR_DEGREE^2 - 1
RECURSIVE slots_at(_, _, _, _)
slots_at(P, intermediate, exp, k) ==
    LET d == P.FACTOR_DEGREE
        basis_index == k \div (d * d)
        factor_exp == (k \div d) % d
        j == k % d
    IN  IF k >= P.FACTOR_COUNT * d * d THEN 0
        ELSE (IF (factor_exp + doubled(basis_exp_repr(P, basis_index), j, P.M)) % P.M = exp
              THEN intermediate[basis_index * d + factor_exp + 1] ELSE 0)
             + slots_at(P, intermediate, exp, k + 1)

\* intermediate[basis_index * FACTOR_DEGREE + factor_exp] of the first loop
\* nest of clone_from_crt_via_factors, summed over factor_index .. FACTOR_COUNT - 1
RECURSIVE basis_sum(_, _, _, _, _, _)
basis_sum(P, ctx, crt, basis_index, factor_exp, factor_index) ==
    IF factor_index >= P.FACTOR_COUNT THEN 0
    ELSE ctx.basis_coefficients[((factor_index + basis_index) % P.FACTOR_COUNT) + 1]
            * crt[factor_index * P.FACTOR_DEGREE + factor_exp + 1]
         + basis_sum(P, ctx, crt, basis_index, factor_exp, factor_index + 1)

\* PowerPoly::clone_from_crt_via_factors
clone_from_crt_via_factors(P, ctx, crt) ==
    LET d == P.FACTOR_DEGREE
        n == P.CYCLOTOMIC_DEGREE
        intermediate == [i \in 1 .. n |->
                           basis_sum(P, ctx, crt, (i - 1) \div d, (i - 1) % d, 0) % P.modulus] \o <<>>
        first_coeff == slots_at(P, intermediate, 0, 0)
        last_coeff == slots_at(P, intermediate, n, 0)
    IN  [c \in 1 .. n |->
           ((IF c = 1 THEN last_coeff ELSE slots_at(P, intermediate, c - 1, 0)) - first_coeff)
              % P.modulus]

\* the monic polynomials of degree FACTOR_DEGREE, lowest coefficient first
MonicPolys(P) ==
    { f \in [1 .. P.FACTOR_DEGREE + 1 -> 0 .. P.modulus - 1] : f[P.FACTOR_DEGREE + 1] = 1 }

\* the product of two polynomials modulo the modulus, lowest coefficient first
RECURSIVE factor_product_at(_, _, _, _, _)
factor_product_at(f, g, k, i, q) ==
    IF i > Len(f) THEN 0
    ELSE ((IF k - i + 1 >= 1 /\ k - i + 1 <= Len(g) THEN f[i] * g[k - i + 1] ELSE 0)
            + factor_product_at(f, g, k, i + 1, q)) % q

factor_product(f, g, q) ==
    [k \in 1 .. Len(f) + Len(g) - 1 |-> factor_product_at(f, g, k, 1, q)] \o <<>>

\* the product of the factors fs[i], ..., fs[Len(fs)]
RECURSIVE factors_product(_, _, _)
factors_product(fs, i, q) ==
    IF i > Len(fs) THEN <<1>> ELSE factor_product(fs[i], factors_product(fs, i + 1, q), q)

\* the factor tables: FACTOR_COUNT monic polynomials of degree FACTOR_DEGREE
\* whose product is Phi_M = 1 + X + ... + X^(M-1), one after the other
\* in a flat table
RECURSIVE factors_flat(_, _)
factors_flat(fs, i) == IF i > Len(fs) THEN <<>> ELSE fs[i] \o factors_flat(fs, i + 1)

FactorTables(P) ==
    { factors_flat(fs, 1) :
        fs \in { gs \in [1 .. P.FACTOR_COUNT -> MonicPolys(P)] :
                   factors_product(gs, 1, P.modulus) = [k \in 1 .. P.M |-> 1] } }

\* the element sum over b of bc[(i + b) % FACTOR_COUNT] * eta_b, where eta_b
\* is the sum of the X^(g^b * 2^j), as a PowerPoly
RECURSIVE dual_element_at(_, _, _, _, _)
dual_element_at(P, bc, i, exp, k) ==
    LET b == k \div P.FACTOR_DEGREE
        j == k % P.FACTOR_DEGREE
    IN  IF k >= P.CYCLOTOMIC_DEGREE THEN 0
        ELSE (IF doubled(basis_exp_repr(P, b), j, P.M) = exp
              THEN bc[((i + b) % P.FACTOR_COUNT) + 1] ELSE 0)
             + dual_element_at(P, bc, i, exp, k + 1)

dual_element(P, bc, i) ==
    [c \in 1 .. P.CYCLOTOMIC_DEGREE |->
        dual_element_at(P, bc, i, IF c = 1 THEN P.CYCLOTOMIC_DEGREE ELSE c - 1, 0) % P.modulus]

\* the content of the parameter file of a Factors bundle: the factors of
\* Phi_M modulo the modulus and the dual-basis coefficients, for which the
\* element of index i is 1 modulo factor i and 0 modulo the other factors
read_factors(P) ==
    CHOOSE ctx \in [strategy : {"Factors"},
                    factors : FactorTables(P),
                    basis_coefficients : [1 .. P.FACTOR_COUNT -> 0 .. P.modulus - 1],
                    m_inverse : {0}, mth_root : {0}, mth_root_inverse : {0},
                    dft_size : {0}, dft_size_inverse : {0},
                    kernel_from_crt : {<<>>}, kernel_from_power : {<<>>},
                    dft_root_powers : {<<>>}] :
        \A i \in 0 .. P.FACTOR_COUNT - 1 :
            clone_from_power_via_factors(P, ctx, dual_element(P, ctx.basis_coefficients, i))
              = [c \in 1 .. P.CYCLOTOMIC_DEGREE |-> IF c = i * P.FACTOR_DEGREE + 1 THEN 1 ELSE 0]

\* CrtContext::gen
CrtContext_gen(P) ==
    IF P.CRT_STRATEGY = "Factors" THEN read_factors(P) ELSE gen_fourier(P)

\* the contexts of the parameter bundles, generated once
Phi3ModP13Context == CrtContext_gen(CrtPolyParametersOf("Phi3ModP13"))

Phi5ModP41Context == CrtContext_gen(CrtPolyParametersOf("Phi5ModP41"))

Phi7ModT2Context == CrtContext_gen(CrtPolyParametersOf("Phi7ModT2"))

CrtContextOf(name) ==
    CASE name = "Phi3ModP13" -> Phi3ModP13Context
      [] name = "Phi5ModP41" -> Phi5ModP41Context
      [] name = "Phi7ModT2" -> Phi7ModT2Context

\* CrtPoly::clone_from_power
clone_from_power(P, ctx, power) ==
    IF ctx.strategy = "Factors" THEN clone_from_power_via_factors(P, ctx, power)
    ELSE clone_from_power_via_fourier(P, ctx, power)

\* PowerPoly::clone_from_crt
clone_from_crt(P, ctx, crt) ==
    IF ctx.strategy = "Factors" THEN clone_from_crt_via_factors(P, ctx, crt)
    ELSE clone_from_crt_via_fourier(P, ctx, crt)

\* the residues the polynomials of the roundtrips draw their coefficients from
BasisResidues(name) ==
    CASE name = "Phi3ModP13" -> 0 .. 12
      [] name = "Phi5ModP41" -> {0, 1, 7, 40}
      [] name = "Phi7ModT2" -> {0, 1, 3}

BasisInputs ==
    UNION { { [P |-> name, from |-> from, poly |-> poly \o <<>>] :
                from \in {"power", "crt"},
                poly \in [1 .. CrtPolyParametersOf(name).CYCLOTOMIC_DEGREE -> BasisResidues(name)] } :
            name \in CrtPolyParameterNames }

\* basis_roundtrip_power and basis_roundtrip_crt: one basis, the other, and back
FnBasis ==
    /\ fnOp = "basis_roundtrip"
    /\ ~fnDone
    /\ LET P == CrtPolyParametersOf(fnIn.P)
           ctx == CrtContextOf(fnIn.P)
           there == IF fnIn.from = "power" THEN clone_from_power(P, ctx, fnIn.poly)
                    ELSE clone_from_crt(P, ctx, fnIn.poly)
           back == IF fnIn.from = "power" THEN clone_from_crt(P, ctx, there)
                   ELSE clone_from_power(P, ctx, there)
       IN  fnOut' = [there |-> there \o <<>>, roundtrip |-> back \o <<>>]
    /\ fnDone' = TRUE
    /\ UNCHANGED <<nonFnVars, fnOp, fnIn>>

\* the plaintext parameters of the preprocessor's parameter sets: the bits of
\* the residue (NativeResidueVec<BITS, _>) and DELTA of TIPParameters
PlaintextParamsOf(name) ==
    CASE name = "Phi337ModT86" -> [BITS |-> 86, DELTA |-> 8]
      [] name = "Phi43691ModT135" -> [BITS |-> 135, DELTA |-> 15]
      [] name = "Phi43691ModT233" -> [BITS |-> 233, DELTA |-> 15]
      [] name = "Phi43691ModT297" -> [BITS |-> 297, DELTA |-> 15]

\* impl PreprocessorParameters: PlaintextParams and the bits of K, S, KS, KSS
PreprocessorParameters ==
    { [name |-> "ToyPreprocK32S32", PlaintextParams |-> "Phi337ModT86",
       K |-> 32, S |-> 32, KS |-> 64, KSS |-> 96],
      [name |-> "PreprocK32S32", PlaintextParams |-> "Phi43691ModT135",
       K |-> 32, S |-> 32, KS |-> 64, KSS |-> 96],
      [name |-> "PreprocK64S64", PlaintextParams |-> "Phi43691ModT233",
       K |-> 64, S |-> 64, KS |-> 128, KSS |-> 192],
      [name |-> "PreprocK128S64", PlaintextParams |-> "Phi43691ModT297",
       K |-> 128, S |-> 64, KS |-> 192, KSS |-> 256] }

\* the widths a parameter set gives the packing: b, k + 2s and DELTA
FnWidths ==
    /\ fnOp = "widths"
    /\ ~fnDone
    /\ fnOut' = [b |-> PlaintextParamsOf(fnIn.PlaintextParams).BITS,
                 kss |-> fnIn.KSS,
                 delta |-> PlaintextParamsOf(fnIn.PlaintextParams).DELTA]
    /\ fnDone' = TRUE
    /\ UNCHANGED <<nonFnVars, fnOp, fnIn>>

InitFn ==
    /\ mac_key = [p \in PID |-> 0]
    /\ MacIdle
    /\ TruncIdle
    /\ DealerIdle
    /\ ZkIdle
    /\ PpIdle
    /\ ShareIdle
    /\ ConnIdle
    /\ BufIdle
    /\ BgvIdle
    /\ TipIdle
    /\ \/ fnOp = "check_bounds" /\ fnIn \in CbInputs
       \/ fnOp = "add_assign_slided" /\ fnIn \in SlInputs
       \/ fnOp = "fast_fourier_transform" /\ fnIn \in FftInputs
       \/ fnOp = "widths" /\ fnIn \in PreprocessorParameters
       \/ fnOp = "basis_roundtrip" /\ fnIn \in BasisInputs
    /\ fnOut = <<>>
    /\ fnDone = FALSE

NextFn ==
    \/ FnCheckBounds
    \/ FnSlided
    \/ FnFourier
    \/ FnWidths
    \/ FnBasis

SpecFn == InitFn /\ [][NextFn]_vars

\* the noise part of an extended integer: its value as a signed integer
\* without the low PlaintextResidue::BITS bits
CbNoise(u) == ext_signed(u) \div Pow2(ZkPlainBits)

CbAbs(x) == IF x < 0 THEN -x ELSE x

\* C27: check_bounds returns true exactly when every coefficient has
\* |noise part| <= 21 B, |e_1| <= 20 B and |v| <= B, both ends included
C27_CheckBoundsInclusive ==
    (fnOp = "check_bounds" /\ fnDone) =>
        LET pp == fnIn.prepared_plaintext
            B == CbBound(fnIn.inv_fail_prob, fnIn.num_ciphertexts, fnIn.num_proofs)
        IN  fnOut = (\A i \in 1 .. ZkDegree :
                        /\ CbAbs(CbNoise(pp.noised_plaintext[i])) <= 21 * B
                        /\ CbAbs(pp.e_1[i]) <= 20 * B
                        /\ CbAbs(pp.v[i]) <= B)

\* C27, as the code has it: check_bounds returns true exactly when every
\* coefficient has -21 B <= noise part < 21 B, -20 B <= e_1 < 20 B and
\* -B <= v < B; the negative end is included and the positive end is not
C27_CheckBoundsHalfOpen ==
    (fnOp = "check_bounds" /\ fnDone) =>
        LET pp == fnIn.prepared_plaintext
            B == CbBound(fnIn.inv_fail_prob, fnIn.num_ciphertexts, fnIn.num_proofs)
        IN  fnOut = (\A i \in 1 .. ZkDegree :
                        /\ -21 * B <= CbNoise(pp.noised_plaintext[i])
                        /\ CbNoise(pp.noised_plaintext[i]) < 21 * B
                        /\ -20 * B <= pp.e_1[i] /\ pp.e_1[i] < 20 * B
                        /\ -B <= pp.v[i] /\ pp.v[i] < B)

\* check_bounds has accepted a plaintext whose parts all lie on their
\* negative ends
C27_Witness ==
    /\ fnOp = "check_bounds"
    /\ fnDone
    /\ fnOut = TRUE
    /\ LET pp == fnIn.prepared_plaintext
           B == CbBound(fnIn.inv_fail_prob, fnIn.num_ciphertexts, fnIn.num_proofs)
       IN  \E i \in 1 .. ZkDegree :
              /\ CbNoise(pp.noised_plaintext[i]) = -21 * B
              /\ pp.e_1[i] = -20 * B
              /\ pp.v[i] = -B

\* C22: add_assign_slided(rhs, length) leaves self as add_assign_rotated(rhs, i)
\* for i = 0, ..., length - 1 leaves it, and unchanged for length 0
C22_SlidedIsRotatedSum ==
    (fnOp = "add_assign_slided" /\ fnDone) =>
        /\ fnOut = RotatedFrom(fnIn.self, fnIn.rhs, 0, fnIn.length, SlM, SlModulus)
        /\ fnIn.length = 0 => fnOut = fnIn.self

\* a slide by a length in the middle of the range, with a nonzero coefficient
\* of X^(M-1), has changed self
C22_Witness ==
    /\ fnOp = "add_assign_slided"
    /\ fnDone
    /\ fnIn.length = 2
    /\ fnIn.rhs[1] # 0
    /\ fnIn.rhs[2] # 0
    /\ fnOut # fnIn.self

\* C23: the transform, then the inverse transform, then every entry times
\* the inverse of n gives back the input vector
C23_FourierRoundtrip ==
    (fnOp = "fast_fourier_transform" /\ fnDone) => fnOut.input_roundtrip = fnIn.input

\* a vector of the largest length has gone through both transforms, and the
\* transform has changed it
C23_Witness ==
    /\ fnOp = "fast_fourier_transform"
    /\ fnDone
    /\ Len(fnIn.input) = Pow2(MaxFftShift)
    /\ \A k \in 1 .. Len(fnIn.input) : fnIn.input[k] # 0
    /\ fnOut.output # fnIn.input
    /\ fnOut.input_roundtrip = fnIn.input

\* C24: every parameter set of the preprocessor has b >= k + 2s + DELTA, b the
\* bits of its plaintext residue and k + 2s the bits of KSS
C24_PlaintextWideEnough ==
    (fnOp = "widths" /\ fnDone) =>
        /\ fnIn.KSS = fnIn.K + 2 * fnIn.S
        /\ fnOut.b >= fnOut.kss + fnOut.delta

\* C25: in every attempt the verifier sends its challenge only when it holds
\* all ZKPOPK_AMORTIZE ciphertexts and has taken the commitment of that
\* attempt, the prover sends its response only when it has taken that
\* challenge, and the challenge the verifier keeps for verify is the one it
\* sent in the attempt
C25_ChallengeOrder ==
    [][/\ (vfChallenges' # vfChallenges) =>
            /\ Len(pre_cipher_a_vec) = ZKPOPK_AMORTIZE
            /\ pre_cipher_a_vec' = pre_cipher_a_vec
            /\ ch_commitment # <<>>
            /\ vfCommitment' = Head(ch_commitment)
            /\ pvCommits = vfChallenges'
            /\ vfRep + 1 = vfChallenges'
            /\ ch_challenge' = Append(ch_challenge, vfChallenge')
       /\ (Len(ch_response') > Len(ch_response)) =>
            /\ ch_challenge # <<>>
            /\ Head(ch_challenge) = vfChallenge
            /\ vfChallenges = pvCommits
            /\ vfPc = "response"
            /\ ch_response' = Append(ch_response, respond(zkPseudo, zkInputs, vfChallenge))
       /\ (vfChallenge' # vfChallenge) => (vfChallenges' = vfChallenges + 1)
       /\ (vfPc = "response" /\ vfPc' # "response") =>
            /\ vfChallenges = vfRep + 1
            /\ ch_challenge = <<>>
            /\ vfChallenge' = vfChallenge
      ]_vars

\* the second attempt has been verified after the first was aborted
C25_Witness ==
    /\ vfPc = "done"
    /\ vfVerdict = "true"
    /\ pvPc = "done"
    /\ pvAborts = 1
    /\ vfChallenges = 2
    /\ pvCommits = 2

\* C26: get_beaver_triples returns its triples only after every iteration
\* has popped a ciphertext covered by a verified ZKPoPK, then has seen
\* truncate return, then has seen batch_check return Ok; a party at which
\* one of the three failed returns no triple
C26_ReturnAfterChecks ==
    /\ [](\A p \in PID : ppPc[p] = "returned" =>
            /\ ppZk[p] = "verified"
            /\ trPc[p] = "done"
            /\ mcResult[p] = "Ok"
            /\ ppIter[p] = ZKPOPK_AMORTIZE - 1
            /\ Len(ppTriples[p]) = ZKPOPK_AMORTIZE * packing_capacity)
    /\ [][\A p \in PID :
            /\ (ppPc[p] # "authenticate" /\ ppPc'[p] = "authenticate") =>
                  (ppPc[p] = "get_a" /\ ppZk[p] = "verified")
            /\ (ppPc[p] # "truncate" /\ ppPc'[p] = "truncate") => ppPc[p] = "vole"
            /\ (ppPc[p] # "batch_check" /\ ppPc'[p] = "batch_check") =>
                  (ppPc[p] = "truncate" /\ trPc[p] = "done")
            /\ (ppPc[p] = "batch_check" /\ ppPc'[p] \in {"get_a", "returned"}) =>
                  (mcPc[p] = "done" /\ mcResult[p] = "Ok")
            /\ (ppPc[p] # "returned" /\ ppPc'[p] = "returned") => ppPc[p] = "batch_check"
            /\ (ppPc[p] = "batch_check" /\ ppPc'[p] = "get_a") => ppIter'[p] = ppIter[p] + 1
            /\ (ppPc[p] # "batch_check") => ppIter'[p] = ppIter[p]
            /\ (ppPc[p] = "panicked" \/ trPc[p] = "panicked" \/ ppZk[p] = "failed") =>
                  ppPc'[p] # "returned"
        ]_vars

\* both parties have returned their batch after the last iteration
C26_Witness ==
    /\ \A p \in PID : ppPc[p] = "returned" /\ ppIter[p] = ZKPOPK_AMORTIZE - 1
    /\ \A p \in PID : Len(ppTriples[p]) = ZKPOPK_AMORTIZE * packing_capacity
    /\ \A p \in PID : ppZk[p] = "verified"

\* the parties that are inside an iteration, with its locals loaded
PpInIteration(p) == ppPc[p] \in {"authenticate", "vole", "truncate", "batch_check", "returned"}

\* C29: in a call of get_beaver_triples the ZKPoPK of get_a runs once, in the
\* first iteration, and fills the empty a_stack with ZKPOPK_AMORTIZE entries;
\* every iteration pops one entry; the entry a party pops in an iteration
\* holds the ciphertext of the plaintext the peer pops in that iteration;
\* a_stack is empty at the return and the final assertion does not fail
C29_AStack ==
    /\ [](\A p \in PID :
            /\ ppPc[p] = "returned" => a_stack[p] = <<>>
            /\ (ppPc[p] = "panicked" /\ mcResult[p] \in {"none", "Ok"}) => ppZk[p] = "failed"
            /\ Len(a_stack[p]) <= ZKPOPK_AMORTIZE
            /\ (PpInIteration(p) /\ PpInIteration(Other(p)) /\ ppIter[p] = ppIter[Other(p)]) =>
                  ppLoc[p].cipher_a.plain =
                     pack(ppLoc[Other(p)].unpacked_wide_a, KSSBits, PlainBits(ppSet)))
    /\ [][\A p \in PID :
            /\ (ppZk'[p] # ppZk[p]) =>
                  (ppZk[p] = "none" /\ ppIter[p] = 0 /\ a_stack[p] = <<>> /\ ppPc[p] = "get_a")
            /\ (Len(a_stack'[p]) > Len(a_stack[p])) =>
                  /\ a_stack[p] = <<>>
                  /\ Len(a_stack'[p]) = ZKPOPK_AMORTIZE
                  /\ ppZk[p] = "none" /\ ppZk'[p] = "verified"
            /\ (ppPc[p] = "get_a" /\ ppPc'[p] = "authenticate") =>
                  /\ a_stack'[p] = SubSeq(a_stack[p], 1, Len(a_stack[p]) - 1)
                  /\ Len(a_stack'[p]) = ZKPOPK_AMORTIZE - 1 - ppIter[p]
            /\ (a_stack'[p] # a_stack[p]) =>
                  \/ Len(a_stack'[p]) > Len(a_stack[p])
                  \/ ppPc[p] = "get_a" /\ ppPc'[p] = "authenticate"
        ]_vars

\* both parties are in the last iteration with an empty a_stack, and the
\* entries they popped in it differ from those of the first iteration
C29_Witness ==
    /\ \A p \in PID : ppPc[p] = "returned" /\ a_stack[p] = <<>>
    /\ \A p \in PID : ppIter[p] = ZKPOPK_AMORTIZE - 1
    /\ \A p \in PID : ppLoc[p].cipher_a.plain =
                          pack(ppLoc[Other(p)].unpacked_wide_a, KSSBits, PlainBits(ppSet))
    /\ ppLoc[0].unpacked_wide_a # ppLoc[1].unpacked_wide_a

\* C21: with the context of a parameter bundle, Fourier or Factors, a
\* PowerPoly taken to the CRT basis and back is the PowerPoly, and a CrtPoly
\* taken to the power basis and back is the CrtPoly
C21_BasisRoundtrip ==
    (fnOp = "basis_roundtrip" /\ fnDone) => fnOut.roundtrip = fnIn.poly

\* a PowerPoly of the Fourier bundle Phi5ModP41 has been taken to the CRT
\* basis, where no coefficient of it is zero, and back
C21_Witness ==
    /\ fnOp = "basis_roundtrip" /\ fnDone
    /\ fnIn.P = "Phi5ModP41" /\ fnIn.from = "power"
    /\ fnIn.poly = <<7, 1, 0, 40>>
    /\ fnOut.there # fnIn.poly
    /\ \A i \in 1 .. 4 : fnOut.there[i] # 0
    /\ fnOut.roundtrip = fnIn.poly

====
